---- MODULE Spec2Model ----
(***************************************************************************)
(* Model of the MUFF 2.0 capture core: the main loop process               *)
(* (muff_mainloop.py) driving the Arduino positioner (muff_arduino.py)     *)
(* and the frame grabbing process over two pipes.                          *)
(*                                                                         *)
(* Lengths are in tenths of a micron (Z_step = 1000 is 0.100 mm), so that  *)
(* the rounding to whole microns of set_Z_step is computed; LED            *)
(* intensities are 0 (0.0) and 1 (1.0).  Every command handed to           *)
(* send_command is recorded in {log}, in order, together with every        *)
(* capture request and reply.                                              *)
(*                                                                         *)
(* The debugging switches arduino_present and camera_present are inputs    *)
(* of a run.  The process ends in one of four ways: "Done" and "Aborted"   *)
(* (terminate_process exits with status 0 or 1), "Fatal" (sys.exit(1) in   *)
(* wait_arduino_OK on a reply other than '0') and "Crashed" (an uncaught   *)
(* exception).                                                             *)
(***************************************************************************)
EXTENDS Integers, Sequences, FiniteSets, TLC

\* ---------------------------------------------------------------------
\* Bounds of the model.

\* Largest number of heights of a scanned stack.
MaxNH == 3

\* Largest number of lines the operator types before the line that ends
\* the manual positioning.
MaxOps == 2

\* Largest number of calls the driver of the LED operations makes.
MaxCalls == 2

\* ---------------------------------------------------------------------
\* Program constants.

num_LEDs == 24
nL_max == num_LEDs
nV_max == 1
nH_max == 99
Z_step_min == -9990
Z_step_max == 9990
Z_range_max == 1000000

\* The value of an LED_status entry before the light test sets it.
None == -1

\* Numbers of lighting conditions the model runs.
NLs == {1, 2, 3, 13}

\* Steps between heights, in tenths of a micron.
ZSteps == {1000}

\* Command lines of four numbers that are not the parameters of a scan:
\* << nL, nV, nH, Z_step >> with one of them out of its range.
OtherParams ==
  { << 0, 1, 1, 1000 >>, << 25, 1, 1, 1000 >>, << 1, 2, 1, 1000 >>,
    << 1, 1, 0, 1000 >>, << 1, 1, 100, 1000 >>,
    << 1, 1, 1, 15000 >>, << 1, 1, 1, 9994 >>, << 1, 1, 1, -9994 >> }

\* Lines the operator may type (without the end-of-line); the end of the
\* input is apart.
OperatorLines ==
  { << "u" >>, << "D" >>, << "s" >>, << "S" >>,
    << "o", "k" >>, << "O", "K" >>, << " ", "o", "k", " " >>,
    << "a", "b", "o", "r", "t" >>, << "A", "b", "O", "r", "t", " " >>,
    << "q" >>, << "Q" >>, << >>, << "x" >> }

\* Lines the frame grabber may reply; "" is the closed stream.
Replies == {"ok\n", "", "bad\n", "OK\n", "ok"}

LEDs == 0 .. (num_LEDs - 1)

\* The LEDs the driver of the LED operations switches: the first two and
\* the last one.
TestLEDs == {0, 1, 23}

\* ---------------------------------------------------------------------
\* Entries of the log.

DevEvent(c) == [k |-> "dev", c |-> c, L |-> 0, V |-> 0, H |-> 0]
ReqEvent(kind, l, v, h) == [k |-> kind, c |-> "G", L |-> l, V |-> v, H |-> h]
RepEvent(s) == [k |-> "rep", c |-> s, L |-> 0, V |-> 0, H |-> 0]

DevEvents(cs) == [i \in 1 .. Len(cs) |-> DevEvent(cs[i])]

IsDev(e) == e.k = "dev"
\* A call of capture_frame: written to the pipe, failed to write, or pretended.
IsCapture(e) == e.k \in {"req", "wfail", "sim"}

\* ---------------------------------------------------------------------
\* muff_arduino.py: the command bytes.

LEDNames == << "A", "B", "C", "D", "E", "F", "G", "H", "I", "J", "K", "L",
               "M", "N", "O", "P", "Q", "R", "S", "T", "U", "V", "W", "X" >>

switch_LED_command(lix, pwr) ==
  (IF pwr = 1 THEN "+" ELSE "-") \o LEDNames[lix + 1]

switch_all_LEDs_command(pwr) == IF pwr = 1 THEN "+@" ELSE "-@"

stop_motor_command == "3"

move_microscope_command == "5"

start_motor_command(dir, fast) ==
  IF dir = 1 THEN (IF fast THEN "6" ELSE "1")
             ELSE (IF fast THEN "7" ELSE "2")

\* start_motor without the call of stop_motor of line 59.
start_motor_commands_NoStop(dir, fast) == << start_motor_command(dir, fast) >>

\* start_motor stops the motor first.
start_motor_commands(dir, fast) ==
  << stop_motor_command, start_motor_command(dir, fast) >>

DigitChars == << "0", "1", "2", "3", "4", "5", "6", "7", "8", "9" >>

RECURSIVE Decimal(_)
Decimal(n) ==
  IF n < 10 THEN DigitChars[n + 1]
            ELSE Decimal(n \div 10) \o DigitChars[(n % 10) + 1]

\* Python's "%+03d": a sign, then the digits, zero-padded to a total width
\* of three characters, the sign included.
FormatPlus03d(i) ==
  LET mag == IF i < 0 THEN -i ELSE i
      sgn == IF i < 0 THEN "-" ELSE "+"
      dig == Decimal(mag)
  IN  sgn \o (IF Len(dig) < 2 THEN "0" ELSE "") \o dig

\* Python's round on a length given in tenths: the nearest integer, the
\* even one of the two when the length is halfway.
Round(tenths) ==
  LET q == tenths \div 10
      r == tenths % 10
  IN  IF r < 5 THEN q
      ELSE IF r > 5 THEN q + 1
      ELSE IF q % 2 = 0 THEN q ELSE q + 1

\* Line 104: the step in whole microns.
istep(zs) == Round(zs)

\* set_Z_step without the assertion of line 105.
set_Z_step_ok_NoCheck(zs) == TRUE

\* Line 105: the assertion on the step in microns.
set_Z_step_ok(zs) == istep(zs) >= -999 /\ istep(zs) <= 999

set_Z_step_command(zs) == "4" \o FormatPlus03d(istep(zs))

\* ---------------------------------------------------------------------
\* muff_mainloop.py: the names of the directories and of the image files.

\* Python's "%0<w>d" for n >= 0.
RECURSIVE Zeros(_)
Zeros(k) == IF k <= 0 THEN "" ELSE "0" \o Zeros(k - 1)

\* "%0<w>d" without the padding.
FormatZeroPadded_NoPad(w, n) == Decimal(n)

FormatZeroPadded(w, n) == Zeros(w - Len(Decimal(n))) \o Decimal(n)

\* The directory of the minute the scan began.
TopDir == "muff_scans/2018-09-04-1843-U"

make_subdir_name(topdir, l, v) ==
  topdir \o "/L_" \o FormatZeroPadded(2, l) \o "/V_" \o FormatZeroPadded(2, v)
         \o "/raw"

make_frame_filename(topdir, l, v, h) ==
  make_subdir_name(topdir, l, v) \o "/frame_" \o FormatZeroPadded(5, h) \o ".jpg"

\* os.makedirs(path, exist_ok=True).
makedirs_raises_ExistOk(path, existing) == FALSE

\* os.makedirs(path, exist_ok=False) raises when the directory exists.
makedirs_raises(path, existing) == path \in existing

\* ---------------------------------------------------------------------
\* muff_mainloop.py: the light pattern planner.

AllOff == [i \in LEDs |-> 0]

Lit(S) == [i \in LEDs |-> IF i \in S THEN 1 ELSE 0]

\* The centric pattern with (Lm+1)%12 in place of (Lm+11)%12.
define_LED_centric_pattern_OneSide(Lm) ==
  { Lm, (Lm + 1) % 12, (Lm + 1) % 12, Lm + 12, (Lm + 4) % 12, (Lm + 8) % 12 }

define_LED_centric_pattern(Lm) ==
  { Lm, (Lm + 1) % 12, (Lm + 11) % 12, Lm + 12, (Lm + 4) % 12, (Lm + 8) % 12 }

\* The bridging pattern with (La+4)%12 in place of (Lb+4)%12.
define_LED_bridging_pattern_FromLa(La) ==
  LET Lb == (La + 1) % 12
  IN  { La, Lb, La + 12, Lb + 12, (La + 4) % 12, (La + 8) % 12 }

define_LED_bridging_pattern(La) ==
  LET Lb == (La + 1) % 12
  IN  { La, Lb, La + 12, Lb + 12, (Lb + 4) % 12, (La + 8) % 12 }

\* The calls of define_LED_vals that end in an uncaught exception: an
\* assertion on the arguments, or the assignment to the undefined name
\* {val} in the bottom tier branch.
define_LED_vals_raises(L, nL) ==
  \/ ~ (nL > 0 /\ nL <= num_LEDs)
  \/ ~ (L >= 0 /\ L < nL)
  \/ (nL > 12 /\ ~ (L < 12 \/ nL = 24))
  \/ (nL < 12 /\ nL # 6 /\ ~ (((L * 24 + 12) \div nL) < 23))

define_LED_vals(L, nL) ==
  IF nL > 12 THEN Lit({L})
  ELSE IF nL = 12 THEN Lit({L, L + 12})
  ELSE IF nL = 6 THEN Lit(define_LED_centric_pattern(2 * L))
  ELSE LET S == (L * 24 + 12) \div nL
       IN  IF S % 2 = 0
             THEN Lit(define_LED_centric_pattern(S \div 2))
             ELSE Lit(define_LED_bridging_pattern((S - 1) \div 2))

\* The four LEDs lit for the manual positioning.
PositioningVals == Lit({0, 3, 6, 9})

\* ---------------------------------------------------------------------
\* muff_mainloop.py: set_light_condition.

LEDIndexSeq == [i \in 1 .. num_LEDs |-> i - 1]

\* set_light_condition with the test "pwr != 0.0" in place of
\* "pwr != LED_status[lix]".
ChangedLEDs_On(vals, status) ==
  SelectSeq(LEDIndexSeq, LAMBDA lix : vals[lix] # 0)

\* The LEDs whose state must change, in the order of the loop.
ChangedLEDs(vals, status) ==
  SelectSeq(LEDIndexSeq, LAMBDA lix : vals[lix] # status[lix])

set_light_condition_commands(vals, status) ==
  LET ch == ChangedLEDs(vals, status)
  IN  [j \in 1 .. Len(ch) |-> switch_LED_command(ch[j], vals[ch[j]])]

\* set_light_condition without the line "LED_status[lix] = pwr".
set_light_condition_status_NoUpdate(vals, status, m) == status

\* LED_status after the first {m} changes of set_light_condition.
set_light_condition_status(vals, status, m) ==
  LET ch == ChangedLEDs(vals, status)
      done == { ch[j] : j \in 1 .. m }
  IN  [i \in LEDs |-> IF i \in done THEN vals[i] ELSE status[i]]

\* LED_status when set_light_condition returns.
set_light_condition_result(vals, status) ==
  set_light_condition_status(vals, status, Len(ChangedLEDs(vals, status)))

\* ---------------------------------------------------------------------
\* The state.

VARIABLES
  pc,               \* position of the main loop process
  argv_ok,          \* the command line arguments parse as numbers
  nL, nV, nH,       \* scan set parameters
  Z_step,           \* step between heights (tenths of a micron)
  arduino_present,  \* FALSE: sport is None, the Arduino is pretended
  camera_present,   \* FALSE: the frame grabber is pretended
  LED_status,       \* presumed state of the LEDs
  Z_curr,           \* presumed Z position: << >> is None, << z >> is z
  L, V, H,          \* loop indices
  ok,               \* result of the last call that returns a status
  nread,            \* lines read from the operator so far
  m2c_unflushed,    \* m2cPipe holds bytes that a flush failed to write
  LED_vals,         \* argument of the last call of set_light_condition
  ncalls,           \* calls made by the driver of the LED operations
  log,              \* commands, capture requests and replies so far
  sport_in,         \* bytes the Arduino has sent that were not read yet
  sport_out,        \* commands written to the serial port
  m2cPipe,          \* written to the pipe to the frame grabber, not read yet
  c2mPipe,          \* lines the frame grabber wrote that were not read yet
  dirs,             \* directories that exist under muff_scans
  disk,             \* image files the frame grabber wrote
  camview_pc,       \* position of the frame grabber process
  fifo              \* state of each end of the two named pipes

params == << argv_ok, nL, nV, nH, Z_step, arduino_present, camera_present >>

\* The serial port and the two pipes, byte by byte.
wires == << sport_in, sport_out, m2cPipe, c2mPipe >>

\* The file system.
store == << dirs, disk >>

\* The frame grabber process and the named pipes as files.
peer == << camview_pc, fifo >>

\* The ends of the named pipes: read and write end of ./muff_pipe_m2c and
\* of ./muff_pipe_c2m.
FifoEnds == {"m2c_r", "m2c_w", "c2m_r", "c2m_w"}

\* No process has opened a pipe.
NotOpened == [e \in FifoEnds |-> "no"]

vars == << pc, argv_ok, nL, nV, nH, Z_step, arduino_present, camera_present,
           LED_status, Z_curr, L, V, H, ok, nread,
           m2c_unflushed, LED_vals, ncalls, log,
           sport_in, sport_out, m2cPipe, c2mPipe, dirs, disk, camview_pc, fifo >>

Init ==
  /\ pc = "parse"
  /\ \/ /\ argv_ok = TRUE
        /\ nL \in NLs
        /\ nV = 1
        /\ nH \in 1 .. MaxNH
        /\ Z_step \in ZSteps
        /\ arduino_present \in BOOLEAN
        /\ camera_present \in BOOLEAN
     \/ /\ argv_ok = TRUE
        /\ \E p \in OtherParams :
             nL = p[1] /\ nV = p[2] /\ nH = p[3] /\ Z_step = p[4]
        /\ arduino_present = TRUE
        /\ camera_present = TRUE
     \/ /\ argv_ok = FALSE
        /\ nL = 1
        /\ nV = 1
        /\ nH = 1
        /\ Z_step = 0
        /\ arduino_present = FALSE
        /\ camera_present = TRUE
  /\ dirs = {}
  /\ disk = {}
  /\ camview_pc = "none"
  /\ fifo = NotOpened
  /\ LED_status = [i \in LEDs |-> None]
  /\ Z_curr = << >>
  /\ L = 0
  /\ V = 0
  /\ H = 0
  /\ ok = TRUE
  /\ nread = 0
  /\ m2c_unflushed = FALSE
  /\ LED_vals = AllOff
  /\ ncalls = 0
  /\ log = << >>
  /\ sport_in = << >>
  /\ sport_out = << >>
  /\ m2cPipe = << >>
  /\ c2mPipe = << >>

\* ---------------------------------------------------------------------
\* muff_arduino.py: send_command_and_wait.

\* The ways a run of commands can go: all of them acknowledged with '0',
\* or, with a real Arduino, the n-th answered with another byte, which
\* ends the process in wait_arduino_OK.
SendOutcomes(cs) ==
  { [n |-> Len(cs), fatal |-> FALSE] } \cup
  ( IF arduino_present
      THEN { [n |-> n, fatal |-> TRUE] : n \in 1 .. Len(cs) }
      ELSE { } )

Sent(cs, o) == log \o DevEvents(SubSeq(cs, 1, o.n))

Exited == pc \in {"Done", "Aborted", "Fatal", "Crashed"}

Crash == pc' = "Crashed"

\* ---------------------------------------------------------------------
\* Python's str.strip and str.lower on the operator's lines.

UpperChars == << "A", "B", "D", "K", "O", "Q", "R", "S", "T", "U", "X" >>
LowerChars == << "a", "b", "d", "k", "o", "q", "r", "s", "t", "u", "x" >>

LowerChar(c) ==
  IF \E i \in 1 .. Len(UpperChars) : UpperChars[i] = c
    THEN LowerChars[CHOOSE i \in 1 .. Len(UpperChars) : UpperChars[i] = c]
    ELSE c

Lower(s) == [i \in 1 .. Len(s) |-> LowerChar(s[i])]

IsSpace(c) == c \in {" ", "\t", "\n", "\r"}

RECURSIVE LStrip(_)
LStrip(s) ==
  IF s # << >> /\ IsSpace(Head(s)) THEN LStrip(Tail(s)) ELSE s

RECURSIVE RStrip(_)
RStrip(s) ==
  IF s # << >> /\ IsSpace(s[Len(s)])
    THEN RStrip(SubSeq(s, 1, Len(s) - 1))
    ELSE s

Strip(s) == RStrip(LStrip(s))

\* ---------------------------------------------------------------------
\* main: from the command line to the manual positioning.

\* parse_command_line_args and the first lines of main.  On a failed
\* parse main calls terminate_process with two arguments instead of four.
ParseArgs ==
  /\ pc = "parse"
  /\ IF argv_ok THEN pc' = "test_lights" ELSE Crash
  /\ UNCHANGED wires
  /\ UNCHANGED store
  /\ UNCHANGED peer
  /\ UNCHANGED << params, ncalls, LED_vals, LED_status, Z_curr, L, V, H, ok, nread,
                  m2c_unflushed, log >>

\* test_lighting_conditions up to its loop: muff_arduino.test_lights.
TestLights ==
  /\ pc = "test_lights"
  /\ LET cs == << switch_all_LEDs_command(1), switch_all_LEDs_command(0) >>
     IN  \E o \in SendOutcomes(cs) :
           /\ log' = Sent(cs, o)
           /\ IF o.fatal
                THEN /\ pc' = "Fatal"
                     /\ UNCHANGED << LED_status, L >>
                ELSE /\ LED_status' = AllOff
                     /\ L' = 0
                     /\ pc' = IF nL > 0 THEN "test_cond" ELSE "set_Z_step"
  /\ UNCHANGED wires
  /\ UNCHANGED store
  /\ UNCHANGED peer
  /\ UNCHANGED << params, ncalls, LED_vals, Z_curr, V, H, ok, nread, m2c_unflushed >>

\* The commands of set_light_condition(vals) followed by the commands {more}.
LightCommands(vals, more) ==
  set_light_condition_commands(vals, LED_status) \o more

\* LED_status when the process dies on the n-th of the commands of
\* set_light_condition(vals): the change of that LED is not recorded.
StatusAtFatal(vals, n) ==
  LET m == Len(ChangedLEDs(vals, LED_status))
  IN  set_light_condition_status(vals, LED_status, IF n - 1 < m THEN n - 1 ELSE m)

\* One turn of the loop of test_lighting_conditions.
TestCondition ==
  /\ pc = "test_cond"
  /\ IF define_LED_vals_raises(L, nL)
       THEN /\ Crash
            /\ UNCHANGED << LED_status, LED_vals, L, log >>
       ELSE LET vals == define_LED_vals(L, nL)
                cs == LightCommands(vals, << switch_all_LEDs_command(0) >>)
            IN  \E o \in SendOutcomes(cs) :
                  /\ log' = Sent(cs, o)
                  /\ LED_vals' = vals
                  /\ IF o.fatal
                       THEN /\ pc' = "Fatal"
                            /\ LED_status' = StatusAtFatal(vals, o.n)
                            /\ L' = L
                       ELSE /\ LED_status' = AllOff
                            /\ L' = L + 1
                            /\ pc' = IF L + 1 < nL THEN "test_cond"
                                                   ELSE "set_Z_step"
  /\ UNCHANGED wires
  /\ UNCHANGED store
  /\ UNCHANGED peer
  /\ UNCHANGED << params, ncalls, Z_curr, V, H, ok, nread, m2c_unflushed >>

\* muff_arduino.set_Z_step.
SetZStep ==
  /\ pc = "set_Z_step"
  /\ IF ~ set_Z_step_ok(Z_step)
       THEN Crash /\ log' = log
       ELSE LET cs == << set_Z_step_command(Z_step) >>
            IN  \E o \in SendOutcomes(cs) :
                  /\ log' = Sent(cs, o)
                  /\ pc' = IF o.fatal THEN "Fatal" ELSE "place_camera"
  /\ UNCHANGED wires
  /\ UNCHANGED store
  /\ UNCHANGED peer
  /\ UNCHANGED << params, ncalls, LED_vals, LED_status, Z_curr, L, V, H, ok, nread,
                  m2c_unflushed >>

\* place_camera_for_first_image up to its first read of the operator.
PlaceCameraLights ==
  /\ pc = "place_camera"
  /\ LET cs == LightCommands(PositioningVals, << >>)
     IN  \E o \in SendOutcomes(cs) :
           /\ log' = Sent(cs, o)
           /\ LED_vals' = PositioningVals
           /\ IF o.fatal
                THEN /\ pc' = "Fatal"
                     /\ LED_status' = StatusAtFatal(PositioningVals, o.n)
                ELSE /\ pc' = "AwaitManualPositioning"
                     /\ LED_status' =
                          set_light_condition_result(PositioningVals, LED_status)
  /\ UNCHANGED wires
  /\ UNCHANGED store
  /\ UNCHANGED peer
  /\ UNCHANGED << params, ncalls, Z_curr, L, V, H, ok, nread, m2c_unflushed >>

\* ---------------------------------------------------------------------
\* place_camera_for_first_image: the loop on the operator's lines.

\* The tests of lines 213 and 218 without the calls of lower().
place_camera_result_CaseSensitive(s) ==
  LET t == Strip(s)
  IN  IF t = << "o", "k" >> THEN "ok"
      ELSE IF t = << "a", "b", "o", "r", "t" >> \/ t = << "q" >> THEN "abort"
      ELSE "continue"

\* What a line {s} (as read, the end-of-line stripped or not) makes the
\* loop do: "ok", "abort", or "continue".
place_camera_result(s) ==
  LET t == Strip(s)
  IN  IF Lower(t) = << "o", "k" >> THEN "ok"
      ELSE IF Lower(t) = << "a", "b", "o", "r", "t" >> \/ Lower(t) = << "q" >>
        THEN "abort"
      ELSE "continue"

\* The loop with a stop of the motor in the last branch, the one of the
\* unrecognized line.
place_camera_commands_UnknownStops(s) ==
  LET t == Strip(s)
  IN  IF place_camera_result(s) # "continue" THEN << stop_motor_command >>
      ELSE IF t = << "u" >> THEN start_motor_commands(1, FALSE)
      ELSE IF t = << "d" >> THEN start_motor_commands(-1, FALSE)
      ELSE IF t = << "U" >> THEN start_motor_commands(1, TRUE)
      ELSE IF t = << "D" >> THEN start_motor_commands(-1, TRUE)
      ELSE IF t = << >> THEN << >>
      ELSE << stop_motor_command >>

\* place_camera_for_first_image without the call of stop_motor of line 211:
\* 'ok' leaves the motor as it is.
place_camera_commands_OkNoStop(s) ==
  LET t == Strip(s)
  IN  IF place_camera_result(s) = "ok" THEN << >>
      ELSE IF place_camera_result(s) # "continue" THEN << stop_motor_command >>
      ELSE IF t = << "u" >> THEN start_motor_commands(1, FALSE)
      ELSE IF t = << "d" >> THEN start_motor_commands(-1, FALSE)
      ELSE IF t = << "U" >> THEN start_motor_commands(1, TRUE)
      ELSE IF t = << "D" >> THEN start_motor_commands(-1, TRUE)
      ELSE IF Lower(t) = << "s" >> THEN << stop_motor_command >>
      ELSE << >>

\* The device commands the line {s} causes.
place_camera_commands(s) ==
  LET t == Strip(s)
  IN  IF place_camera_result(s) # "continue" THEN << stop_motor_command >>
      ELSE IF t = << "u" >> THEN start_motor_commands(1, FALSE)
      ELSE IF t = << "d" >> THEN start_motor_commands(-1, FALSE)
      ELSE IF t = << "U" >> THEN start_motor_commands(1, TRUE)
      ELSE IF t = << "D" >> THEN start_motor_commands(-1, TRUE)
      ELSE IF Lower(t) = << "s" >> THEN << stop_motor_command >>
      ELSE << >>

\* The operator types the line {s}.
OperatorLine(s) ==
  /\ pc = "AwaitManualPositioning"
  /\ place_camera_result(s) = "continue" => nread < MaxOps
  /\ nread' = nread + 1
  /\ LET cs == place_camera_commands(s)
         res == place_camera_result(s)
     IN  \E o \in SendOutcomes(cs) :
           /\ log' = Sent(cs, o)
           /\ IF o.fatal
                THEN /\ pc' = "Fatal"
                     /\ UNCHANGED << Z_curr, ok >>
                ELSE CASE res = "ok" ->
                            /\ Z_curr' = << 0 >>
                            /\ ok' = TRUE
                            /\ pc' = "capture_image_set"
                       [] res = "abort" ->
                            /\ ok' = FALSE
                            /\ pc' = "terminate"
                            /\ UNCHANGED Z_curr
                       [] OTHER ->
                            /\ pc' = pc
                            /\ UNCHANGED << Z_curr, ok >>
  /\ UNCHANGED wires
  /\ UNCHANGED store
  /\ UNCHANGED peer
  /\ UNCHANGED << params, ncalls, LED_vals, LED_status, L, V, H, m2c_unflushed >>

\* The end of the input without the call of stop_motor of line 209.
OperatorEOF_NoStop ==
  /\ pc = "AwaitManualPositioning"
  /\ nread' = nread + 1
  /\ log' = log
  /\ pc' = "terminate"
  /\ ok' = FALSE
  /\ UNCHANGED wires
  /\ UNCHANGED store
  /\ UNCHANGED peer
  /\ UNCHANGED << params, ncalls, LED_vals, LED_status, Z_curr, L, V, H, m2c_unflushed >>

\* The operator's input ends.
OperatorEOF ==
  /\ pc = "AwaitManualPositioning"
  /\ nread' = nread + 1
  /\ LET cs == << stop_motor_command >>
     IN  \E o \in SendOutcomes(cs) :
           /\ log' = Sent(cs, o)
           /\ IF o.fatal
                THEN pc' = "Fatal" /\ ok' = ok
                ELSE pc' = "terminate" /\ ok' = FALSE
  /\ UNCHANGED wires
  /\ UNCHANGED store
  /\ UNCHANGED peer
  /\ UNCHANGED << params, ncalls, LED_vals, LED_status, Z_curr, L, V, H, m2c_unflushed >>

\* ---------------------------------------------------------------------
\* capture_image_set.

capture_image_set_asserts ==
  /\ nL > 0 /\ nL <= nL_max
  /\ nV > 0 /\ nV <= nV_max
  /\ nH > 0 /\ nH <= nH_max
  /\ Z_step >= Z_step_min /\ Z_step <= Z_step_max
  /\ nH * Z_step <= Z_range_max + 1

\* The parameter checks, and create_directories up to its loop: the
\* directory of this minute is created, which raises when it exists.
BeginCaptureImageSet ==
  /\ pc = "capture_image_set"
  /\ IF ~ capture_image_set_asserts \/ makedirs_raises(TopDir, dirs)
       THEN Crash /\ UNCHANGED << L, V, dirs >>
       ELSE /\ dirs' = dirs \cup {TopDir}
            /\ L' = 0
            /\ V' = 0
            /\ pc' = "create_directories"
  /\ UNCHANGED wires
  /\ UNCHANGED disk
  /\ UNCHANGED peer
  /\ UNCHANGED << params, ncalls, LED_vals, LED_status, Z_curr, H, ok, nread, m2c_unflushed, log >>

\* One turn of the loops of create_directories: the directory of the
\* images of lighting condition L and view V is created, which raises
\* when it exists.  After the last one the loops of capture_image_set begin.
MakeSubdir ==
  /\ pc = "create_directories"
  /\ LET subdir == make_subdir_name(TopDir, L, V)
     IN  IF makedirs_raises(subdir, dirs)
           THEN Crash /\ UNCHANGED << L, V, H, dirs >>
           ELSE /\ dirs' = dirs \cup {subdir}
                /\ IF V + 1 < nV
                     THEN pc' = pc /\ L' = L /\ V' = V + 1 /\ H' = H
                   ELSE IF L + 1 < nL
                     THEN pc' = pc /\ L' = L + 1 /\ V' = 0 /\ H' = H
                   ELSE pc' = "light" /\ L' = 0 /\ V' = 0 /\ H' = 0
  /\ UNCHANGED wires
  /\ UNCHANGED disk
  /\ UNCHANGED peer
  /\ UNCHANGED << params, ncalls, LED_vals, LED_status, Z_curr, ok, nread, m2c_unflushed, log >>

\* The directories create_directories has made so far.
MadeSoFar ==
  {TopDir} \cup
  { make_subdir_name(TopDir, l, v) :
      l \in 0 .. (L - 1), v \in 0 .. (nV - 1) } \cup
  { make_subdir_name(TopDir, L, v) : v \in 0 .. (V - 1) }

\* Another process makes the directory of this minute before
\* create_directories does, or, while create_directories runs, one of the
\* directories it has not made yet (one only).
OtherProcessMakesDir ==
  /\ \/ /\ pc = "capture_image_set"
        /\ dirs = {}
        /\ dirs' = {TopDir}
     \/ /\ pc = "create_directories"
        /\ dirs = MadeSoFar
        /\ \E l \in 0 .. (nL - 1), v \in 0 .. (nV - 1) :
             /\ make_subdir_name(TopDir, l, v) \notin dirs
             /\ dirs' = dirs \cup { make_subdir_name(TopDir, l, v) }
  /\ UNCHANGED wires
  /\ UNCHANGED disk
  /\ UNCHANGED peer
  /\ UNCHANGED << params, ncalls, LED_vals, LED_status, Z_curr, L, V, H, ok, nread,
                  m2c_unflushed, log, pc >>

\* Line 127 with "Z_curr = Z_step" in place of "Z_curr = Z_curr + Z_step".
Z_after_move_Assign(z, step) == step

\* Line 127: the presumed position after a move.
Z_after_move(z, step) == z + step

\* Lines 124-127: the microscope moves up before every height but the first.
MoveMicroscope ==
  /\ pc = "move"
  /\ LET cs == << move_microscope_command >>
     IN  \E o \in SendOutcomes(cs) :
           /\ log' = Sent(cs, o)
           /\ IF o.fatal
                THEN pc' = "Fatal" /\ Z_curr' = Z_curr
                ELSE pc' = "light" /\ Z_curr' = << Z_after_move(Z_curr[1], Z_step) >>
  /\ UNCHANGED wires
  /\ UNCHANGED store
  /\ UNCHANGED peer
  /\ UNCHANGED << params, ncalls, LED_vals, LED_status, L, V, H, ok, nread, m2c_unflushed >>

\* Lines 140-141: define_LED_vals and set_light_condition.
SetLightCondition ==
  /\ pc = "light"
  /\ IF define_LED_vals_raises(L, nL)
       THEN Crash /\ UNCHANGED << LED_status, LED_vals, log >>
       ELSE LET vals == define_LED_vals(L, nL)
                cs == LightCommands(vals, << >>)
            IN  \E o \in SendOutcomes(cs) :
                  /\ log' = Sent(cs, o)
                  /\ LED_vals' = vals
                  /\ IF o.fatal
                       THEN /\ pc' = "Fatal"
                            /\ LED_status' = StatusAtFatal(vals, o.n)
                       ELSE /\ pc' = "capture"
                            /\ LED_status' =
                                 set_light_condition_result(vals, LED_status)
  /\ UNCHANGED wires
  /\ UNCHANGED store
  /\ UNCHANGED peer
  /\ UNCHANGED << params, ncalls, Z_curr, L, V, H, ok, nread, m2c_unflushed >>

\* capture_frame_camview without the wait for the reply.
CaptureFrame_NoWait ==
  /\ pc = "capture"
  /\ log' = Append(log, ReqEvent(IF camera_present THEN "req" ELSE "sim", L, V, H))
  /\ m2cPipe' = IF camera_present
                  THEN m2cPipe \o
                         << "G " \o make_frame_filename(TopDir, L, V, H), "\n" >>
                  ELSE m2cPipe
  /\ ok' = TRUE
  /\ pc' = "lights_off"
  /\ UNCHANGED << sport_in, sport_out, c2mPipe >>
  /\ UNCHANGED store
  /\ UNCHANGED peer
  /\ UNCHANGED << params, ncalls, LED_vals, LED_status, Z_curr, L, V, H, nread,
                  m2c_unflushed >>

\* capture_frame up to the read of the reply: the request is written and
\* flushed, or the write fails, or (no camera) the request is pretended.
CaptureFrame ==
  /\ pc = "capture"
  /\ IF ~ camera_present
       THEN /\ log' = Append(log, ReqEvent("sim", L, V, H))
            /\ ok' = TRUE
            /\ pc' = "lights_off"
            /\ UNCHANGED << m2c_unflushed, m2cPipe >>
       ELSE \/ /\ log' = Append(log, ReqEvent("req", L, V, H))
               /\ m2cPipe' = m2cPipe \o
                    << "G " \o make_frame_filename(TopDir, L, V, H), "\n" >>
               /\ pc' = "await_reply"
               /\ UNCHANGED << ok, m2c_unflushed >>
            \/ /\ log' = Append(log, ReqEvent("wfail", L, V, H))
               /\ ok' = FALSE
               /\ m2c_unflushed' = TRUE
               /\ pc' = "lights_off"
               /\ UNCHANGED m2cPipe
  /\ UNCHANGED << sport_in, sport_out, c2mPipe >>
  /\ UNCHANGED store
  /\ UNCHANGED peer
  /\ UNCHANGED << params, ncalls, LED_vals, LED_status, Z_curr, L, V, H, nread >>

\* capture_frame_camview with only the test for the closed pipe.
capture_reply_ok_AnyLine(s) == s # ""

\* The result of capture_frame_camview for the line read from c2mPipe.
capture_reply_ok(s) == s = "ok\n"

\* capture_frame_camview reads the reply line {s}.
CaptureReply(s) ==
  /\ pc = "await_reply"
  /\ log' = Append(log, RepEvent(s))
  /\ ok' = capture_reply_ok(s)
  /\ pc' = "lights_off"
  /\ UNCHANGED wires
  /\ UNCHANGED store
  /\ UNCHANGED peer
  /\ UNCHANGED << params, ncalls, LED_vals, LED_status, Z_curr, L, V, H, nread, m2c_unflushed >>

\* The loops without their end: after the last frame capture_image_set
\* does not return.
NextFrame_NeverReturns(l, v, h) ==
  IF l + 1 < nL THEN [pc |-> "light", L |-> l + 1, V |-> v, H |-> h]
  ELSE IF v + 1 < nV THEN [pc |-> "light", L |-> 0, V |-> v + 1, H |-> h]
  ELSE IF h + 1 < nH THEN [pc |-> "move", L |-> 0, V |-> 0, H |-> h + 1]
  ELSE [pc |-> "capture_image_set_loops", L |-> l, V |-> v, H |-> h]

\* The loops nested "for L: for V: for H".
NextFrame_HeightInner(l, v, h) ==
  IF h + 1 < nH THEN [pc |-> "move", L |-> l, V |-> v, H |-> h + 1]
  ELSE IF v + 1 < nV THEN [pc |-> "light", L |-> l, V |-> v + 1, H |-> 0]
  ELSE IF l + 1 < nL THEN [pc |-> "light", L |-> l + 1, V |-> 0, H |-> 0]
  ELSE [pc |-> "terminate", L |-> l, V |-> v, H |-> h]

\* The loops without the move of lines 124-127.
NextFrame_NoMove(l, v, h) ==
  IF l + 1 < nL THEN [pc |-> "light", L |-> l + 1, V |-> v, H |-> h]
  ELSE IF v + 1 < nV THEN [pc |-> "light", L |-> 0, V |-> v + 1, H |-> h]
  ELSE IF h + 1 < nH THEN [pc |-> "light", L |-> 0, V |-> 0, H |-> h + 1]
  ELSE [pc |-> "terminate", L |-> l, V |-> v, H |-> h]

\* The position after frame (l, v, h) was captured: the next frame of the
\* loops "for H: for V: for L", or the end of capture_image_set.
NextFrame(l, v, h) ==
  IF l + 1 < nL THEN [pc |-> "light", L |-> l + 1, V |-> v, H |-> h]
  ELSE IF v + 1 < nV THEN [pc |-> "light", L |-> 0, V |-> v + 1, H |-> h]
  ELSE IF h + 1 < nH THEN [pc |-> "move", L |-> 0, V |-> 0, H |-> h + 1]
  ELSE [pc |-> "terminate", L |-> l, V |-> v, H |-> h]

\* capture_image_set without the test "if not ok".
AfterFrame_Continue(captured, l, v, h) ==
  IF l + 1 < nL THEN [pc |-> "light", L |-> l + 1, V |-> v, H |-> h]
  ELSE IF v + 1 < nV THEN [pc |-> "light", L |-> 0, V |-> v + 1, H |-> h]
  ELSE IF h + 1 < nH THEN [pc |-> "move", L |-> 0, V |-> 0, H |-> h + 1]
  ELSE [pc |-> "terminate", L |-> l, V |-> v, H |-> h]

\* Where capture_image_set goes after the lights are off: it returns False
\* when the capture failed.
AfterFrame(captured, l, v, h) ==
  IF captured THEN NextFrame(l, v, h)
              ELSE [pc |-> "terminate", L |-> l, V |-> v, H |-> h]

\* Lines 147-152 with the test of the capture before switch_all_lights_off.
SwitchAllLightsOff_AfterCheck ==
  /\ pc = "lights_off"
  /\ LET cs == IF ok THEN << switch_all_LEDs_command(0) >> ELSE << >>
         nxt == AfterFrame(ok, L, V, H)
     IN  \E o \in SendOutcomes(cs) :
           /\ log' = Sent(cs, o)
           /\ IF o.fatal
                THEN /\ pc' = "Fatal"
                     /\ UNCHANGED << LED_status, L, V, H >>
                ELSE /\ LED_status' = IF ok THEN AllOff ELSE LED_status
                     /\ pc' = nxt.pc
                     /\ L' = nxt.L
                     /\ V' = nxt.V
                     /\ H' = nxt.H
  /\ UNCHANGED wires
  /\ UNCHANGED store
  /\ UNCHANGED peer
  /\ UNCHANGED << params, ncalls, LED_vals, Z_curr, ok, nread, m2c_unflushed >>

\* Lines 147-152: switch_all_lights_off, then the test of the capture.
SwitchAllLightsOff ==
  /\ pc = "lights_off"
  /\ LET cs == << switch_all_LEDs_command(0) >>
         nxt == AfterFrame(ok, L, V, H)
     IN  \E o \in SendOutcomes(cs) :
           /\ log' = Sent(cs, o)
           /\ IF o.fatal
                THEN /\ pc' = "Fatal"
                     /\ UNCHANGED << LED_status, L, V, H >>
                ELSE /\ LED_status' = AllOff
                     /\ pc' = nxt.pc
                     /\ L' = nxt.L
                     /\ V' = nxt.V
                     /\ H' = nxt.H
  /\ UNCHANGED wires
  /\ UNCHANGED store
  /\ UNCHANGED peer
  /\ UNCHANGED << params, ncalls, LED_vals, Z_curr, ok, nread, m2c_unflushed >>

\* ---------------------------------------------------------------------
\* terminate_process.

terminate_process_commands ==
  << stop_motor_command, switch_all_LEDs_command(0) >>

\* The pipes are closed first; closing m2cPipe flushes it, and raises when
\* the bytes a failed flush left in it still cannot be written.
TerminateProcess ==
  /\ pc = "terminate"
  /\ \E still_broken \in BOOLEAN :
       IF camera_present /\ m2c_unflushed /\ still_broken
         THEN Crash /\ log' = log
         ELSE LET cs == terminate_process_commands
              IN  \E o \in SendOutcomes(cs) :
                    /\ log' = Sent(cs, o)
                    /\ pc' = IF o.fatal THEN "Fatal"
                             ELSE IF ok THEN "Done" ELSE "Aborted"
  /\ UNCHANGED wires
  /\ UNCHANGED store
  /\ UNCHANGED peer
  /\ UNCHANGED << params, ncalls, LED_vals, LED_status, Z_curr, L, V, H, ok, nread,
                  m2c_unflushed >>

Next ==
  \/ ParseArgs
  \/ TestLights
  \/ TestCondition
  \/ SetZStep
  \/ PlaceCameraLights
  \/ \E s \in OperatorLines : OperatorLine(s)
  \/ OperatorEOF
  \/ BeginCaptureImageSet
  \/ MakeSubdir
  \/ OtherProcessMakesDir
  \/ MoveMicroscope
  \/ SetLightCondition
  \/ CaptureFrame
  \/ \E s \in Replies : CaptureReply(s)
  \/ SwitchAllLightsOff
  \/ TerminateProcess

Spec == Init /\ [][Next]_vars

\* ---------------------------------------------------------------------
\* The LED operations on their own: set_light_condition and
\* switch_all_lights_off called in any order, with any vector, from any
\* LED_status.

TestVectors == { [i \in LEDs |-> IF i \in S THEN 1 ELSE 0] : S \in SUBSET TestLEDs }

InitLight ==
  /\ pc = "LED_driver"
  /\ argv_ok = TRUE
  /\ nL = 1
  /\ nV = 1
  /\ nH = 1
  /\ Z_step = 0
  /\ arduino_present \in BOOLEAN
  /\ camera_present = FALSE
  /\ LED_status \in TestVectors \cup { [i \in LEDs |-> None] }
  /\ Z_curr = << >>
  /\ L = 0
  /\ V = 0
  /\ H = 0
  /\ ok = TRUE
  /\ nread = 0
  /\ m2c_unflushed = FALSE
  /\ LED_vals = AllOff
  /\ ncalls = 0
  /\ log = << >>
  /\ dirs = {}
  /\ disk = {}
  /\ camview_pc = "none"
  /\ fifo = NotOpened
  /\ sport_in = << >>
  /\ sport_out = << >>
  /\ m2cPipe = << >>
  /\ c2mPipe = << >>

\* A call set_light_condition(sport, vals).
LightDriverSet(vals) ==
  /\ pc \in {"LED_driver", "after_set", "after_off"}
  /\ ncalls < MaxCalls
  /\ ncalls' = ncalls + 1
  /\ LED_vals' = vals
  /\ LET cs == LightCommands(vals, << >>)
     IN  \E o \in SendOutcomes(cs) :
           /\ log' = Sent(cs, o)
           /\ IF o.fatal
                THEN /\ pc' = "Fatal"
                     /\ LED_status' = StatusAtFatal(vals, o.n)
                ELSE /\ pc' = "after_set"
                     /\ LED_status' = set_light_condition_result(vals, LED_status)
  /\ UNCHANGED wires
  /\ UNCHANGED store
  /\ UNCHANGED peer
  /\ UNCHANGED << params, Z_curr, L, V, H, ok, nread, m2c_unflushed >>

\* A call switch_all_lights_off(sport).
LightDriverOff ==
  /\ pc \in {"LED_driver", "after_set", "after_off"}
  /\ ncalls < MaxCalls
  /\ ncalls' = ncalls + 1
  /\ LET cs == << switch_all_LEDs_command(0) >>
     IN  \E o \in SendOutcomes(cs) :
           /\ log' = Sent(cs, o)
           /\ IF o.fatal
                THEN pc' = "Fatal" /\ LED_status' = LED_status
                ELSE pc' = "after_off" /\ LED_status' = AllOff
  /\ UNCHANGED wires
  /\ UNCHANGED store
  /\ UNCHANGED peer
  /\ UNCHANGED << params, LED_vals, Z_curr, L, V, H, ok, nread, m2c_unflushed >>

NextLight ==
  \/ \E vals \in TestVectors : LightDriverSet(vals)
  \/ LightDriverOff

SpecLight == InitLight /\ [][NextLight]_vars

\* ---------------------------------------------------------------------
\* Properties of set_light_condition.

\* The events a step adds to the log.
Added == SubSeq(log', Len(log) + 1, Len(log'))

\* The name of LED {i} on the dome: chr(ord('A') + i).
ExpectedLetter(i) == CASE i = 0 -> "A" [] i = 1 -> "B" [] i = 23 -> "X"

ExpectedLEDCommand(i, pwr) ==
  DevEvent((IF pwr = 1 THEN "+" ELSE "-") \o ExpectedLetter(i))

\* C9: a call of set_light_condition that returns sends one command for
\* each LED whose requested value differs from LED_status, '+' and the
\* LED's letter for 1.0, '-' and the letter for 0.0, sends nothing else,
\* and leaves LED_status equal to the requested vector.
C9_SetLightSendsExactlyTheChanges ==
  [][ \A vals \in TestVectors :
        (LightDriverSet(vals) /\ pc' = "after_set") =>
          LET differ == { i \in LEDs : vals[i] # LED_status[i] }
          IN  /\ Len(Added) = Cardinality(differ)
              /\ \A i \in differ \cap TestLEDs :
                   \E j \in 1 .. Len(Added) :
                     Added[j] = ExpectedLEDCommand(i, vals[i])
              /\ \A j \in 1 .. Len(Added) :
                   \E i \in differ :
                     Added[j] = DevEvent(switch_LED_command(i, vals[i]))
              /\ LED_status' = vals ]_vars

\* C9 witness: a call that switched LED 0 ('A') on and LED 23 ('X') off
\* and left LED 1 alone.
C9_Witness ==
  /\ pc = "after_set"
  /\ ncalls = 1
  /\ log = << DevEvent("+A"), DevEvent("-X") >>
  /\ LED_status[1] = 1

\* C10: a call of set_light_condition with the vector of the call just
\* before it sends no command and leaves LED_status as it is.
C10_SecondCallSendsNothing ==
  [][ \A vals \in TestVectors :
        (pc = "after_set" /\ vals = LED_vals /\ LightDriverSet(vals)) =>
          (log' = log /\ LED_status' = LED_status /\ pc' = "after_set") ]_vars

\* C10 witness: from a LED_status of all None the first call sent 24
\* commands and the second call, with the same vector, none.
C10_Witness ==
  /\ pc = "after_set"
  /\ ncalls = 2
  /\ Len(log) = num_LEDs

\* ---------------------------------------------------------------------
\* Properties of the capture session.

\* The calls of capture_frame so far, in order.
Captures == SelectSeq(log, IsCapture)

\* The places of the command {c} in the log.
CmdIndices(c) == { i \in 1 .. Len(log) : log[i] = DevEvent(c) }

\* The number of commands {c} sent so far.
CountCmd(c) == Cardinality(CmdIndices(c))

\* The per-LED commands: '+' or '-' and the letter of an LED.
PerLEDCommands ==
  { switch_LED_command(lix, pwr) : lix \in LEDs, pwr \in {0, 1} }

\* capture_image_set has returned True.
SessionSucceeded == pc = "Done" \/ (pc = "terminate" /\ ok)

\* The k-th frame of the order "H outermost, then V, then L innermost".
ExpectedFrame(k) ==
  [ L |-> (k - 1) % nL,
    V |-> ((k - 1) \div nL) % nV,
    H |-> (k - 1) \div (nL * nV) ]

\* The capture recorded at entry {i} of the log failed.
CaptureFailedAt(i) ==
  \/ log[i].k = "wfail"
  \/ log[i].k = "rep" /\ log[i].c # "ok\n"

\* C1: whenever the process leaves the end of a session (capture_image_set
\* returned, or the manual positioning was aborted) by reporting a status
\* or by an uncaught exception, it has sent the stop command '3' and the
\* all-lights-off command '-@' in between.
C1_CleanupBeforeExit ==
  [][ (pc = "terminate" /\ pc' \in {"Done", "Aborted", "Crashed"}) =>
        Added = DevEvents(<< "3", "-@" >>) ]_vars

\* C2: the capture requests are the frames (L, V, H) in the order H
\* outermost, V, L innermost, each once; a session whose captures all
\* succeed makes exactly nL*nV*nH of them, all written to the pipe when
\* there is a frame grabber.
C2_AllFramesOnceInOrder ==
  LET caps == Captures
  IN  /\ Len(caps) <= nL * nV * nH
      /\ \A k \in 1 .. Len(caps) :
           /\ caps[k].L = ExpectedFrame(k).L
           /\ caps[k].V = ExpectedFrame(k).V
           /\ caps[k].H = ExpectedFrame(k).H
           /\ IF camera_present
                THEN caps[k].k = "req" \/ (caps[k].k = "wfail" /\ k = Len(caps))
                ELSE caps[k].k = "sim"
      /\ SessionSucceeded =>
           /\ Len(caps) = nL * nV * nH
           /\ \A k \in 1 .. Len(caps) : caps[k].k # "wfail"

\* C2 witness: a finished session of 3 lights and 2 heights with a frame
\* grabber.
C2_Witness == pc = "Done" /\ camera_present /\ nL = 3 /\ nH = 2

\* C3: before the capture request of a frame of height H exactly H
\* step-once commands '5' were sent (none before the first capture, one
\* more between two heights), and a session whose captures all succeed
\* sends nH-1 of them.
C3_OneStepBetweenHeights ==
  /\ LET steps == CmdIndices("5")
     IN  \A i \in 1 .. Len(log) :
           IsCapture(log[i]) =>
             Cardinality({ j \in steps : j < i }) = log[i].H
  /\ SessionSucceeded => CountCmd("5") = nH - 1

\* C3 witness: a finished session of 2 lights and 3 heights.
C3_Witness == pc = "Done" /\ nL = 2 /\ nH = 3 /\ CountCmd("5") = 2

\* C4: once the operator accepted the position, the presumed Z offset is
\* the number of step-once commands sent times Z_step, as long as the
\* process runs or has ended with a status: 0 when capture_image_set
\* starts and (nH-1)*Z_step when it has succeeded.
C4_ZOffsetCountsSteps ==
  /\ pc = "capture_image_set" => Z_curr = << 0 >>
  /\ (Z_curr # << >> /\ pc # "Fatal") =>
       Z_curr[1] = CountCmd("5") * Z_step
  /\ SessionSucceeded => Z_curr = << (nH - 1) * Z_step >>

\* C4 witness: a finished session of 3 heights, the offset at two steps.
C4_Witness == pc = "Done" /\ nH = 3 /\ Z_curr = << 2 * Z_step >>

\* C5: after a failed capture (write failure, closed reply stream or a
\* reply other than "ok") nothing more is sent but all-lights-off and the
\* stop of the motor: no capture request, no step-once, no per-LED
\* command; and capture_image_set returns False.
C5_AbortOnCaptureFailure ==
  \A i \in 1 .. Len(log) :
    CaptureFailedAt(i) =>
      /\ \A j \in (i + 1) .. Len(log) :
           log[j] \in { DevEvent("-@"), DevEvent("3") }
      /\ ~ ok
      /\ pc \in {"lights_off", "terminate", "Aborted", "Crashed", "Fatal"}

\* C5 witness: the second capture failed and the process has ended.
C5_Witness ==
  /\ pc = "Aborted"
  /\ Len(Captures) = 2
  /\ \E i \in 1 .. Len(log) : CaptureFailedAt(i)

\* Three captures are planned and the reply to the second request is a
\* line other than "ok".
SecondOfThreeBadAck ==
  /\ nL * nV * nH = 3
  /\ \E i \in 1 .. Len(log) :
       /\ log[i].k = "rep"
       /\ log[i].c \notin {"ok\n", ""}
       /\ Cardinality({ j \in 1 .. i : IsCapture(log[j]) }) = 2

\* The number of captures acknowledged with "ok".
SuccessfulCaptures ==
  Cardinality({ i \in 1 .. Len(log) : log[i] = RepEvent("ok\n") })

\* The log from the first failed capture on.
AfterFailure ==
  LET i == CHOOSE i \in 1 .. Len(log) : CaptureFailedAt(i)
  IN  SubSeq(log, i + 1, Len(log))

\* C6 as stated: with a bad acknowledgement to the 2nd of 3 planned
\* captures the session ends after 2 successful captures.
C6_TwoSuccessfulCaptures ==
  (SecondOfThreeBadAck /\ pc = "Aborted") => SuccessfulCaptures = 2

\* C6 amended: with a bad acknowledgement to the 2nd of 3 planned captures
\* the session ends after 2 capture requests, 1 of them successful, and
\* then sends all-lights-off for the frame and the cleanup, stop and
\* all-lights-off, once.
C6_StopsAfterSecondRequest ==
  (SecondOfThreeBadAck /\ pc = "Aborted") =>
    /\ Len(Captures) = 2
    /\ SuccessfulCaptures = 1
    /\ AfterFailure = DevEvents(<< "-@", "3", "-@" >>)

\* C6 witness: such a session has ended.
C6_Witness == SecondOfThreeBadAck /\ pc = "Aborted" /\ nL = 3

\* C7: a capture request is followed by its reply and by nothing else: no
\* device command and no other request comes between the two.
C7_NothingWhileRequestOutstanding ==
  /\ \A i \in 1 .. Len(log) :
       /\ log[i].k = "req" =>
            IF i = Len(log) THEN pc = "await_reply" ELSE log[i + 1].k = "rep"
       /\ log[i].k = "rep" => (i > 1 /\ log[i - 1].k = "req")
  /\ pc = "await_reply" => (log # << >> /\ log[Len(log)].k = "req")

\* C7 witness: the second request is outstanding.
C7_Witness ==
  /\ pc = "await_reply"
  /\ Len(Captures) = 2

\* C8: a frame is captured with the vector of its condition applied, the
\* last command before the request being a per-LED command; and the end
\* of every capture (reply read, write failed, or pretended) is followed
\* by all-lights-off before anything else.
C8_LightCaptureLightsOff ==
  /\ pc \in {"capture", "await_reply", "lights_off"} =>
       (LED_status = define_LED_vals(L, nL) /\ LED_vals = define_LED_vals(L, nL))
  /\ \A i \in 1 .. Len(log) :
       /\ IsCapture(log[i]) =>
            /\ i > 1
            /\ IsDev(log[i - 1])
            /\ log[i - 1].c \in PerLEDCommands
       /\ log[i].k \in {"rep", "wfail", "sim"} =>
            IF i = Len(log) THEN pc = "lights_off"
                            ELSE log[i + 1] = DevEvent("-@")

\* C8 witness: a good reply and a bad reply, each followed by
\* all-lights-off.
C8_Witness ==
  /\ \E i \in 1 .. Len(log) - 1 : log[i] = RepEvent("ok\n")
  /\ \E i \in 1 .. Len(log) - 1 : log[i] = RepEvent("bad\n")
  /\ pc = "terminate"

\* ---------------------------------------------------------------------
\* Properties of the LED cache.

\* The commands that switch LED {i} on, and those that switch it off.
OnCommands(i) == { "+@", "+" \o LEDNames[i + 1] }
OffCommands(i) == { "-@", "-" \o LEDNames[i + 1] }

\* The value last commanded to the device for LED {i}: None before the
\* first command that concerns it.
LastCommanded(i) ==
  LET js == { j \in 1 .. Len(log) :
                IsDev(log[j]) /\ log[j].c \in OnCommands(i) \cup OffCommands(i) }
  IN  IF js = { } THEN None
      ELSE LET last == CHOOSE j \in js : \A k \in js : k <= j
           IN  IF log[last].c \in OnCommands(i) THEN 1 ELSE 0

\* C11: as long as the process has not died on a command the Arduino did
\* not acknowledge, LED_status[i] is the value last commanded for LED i,
\* for every LED i.
C11_CacheMirrorsLastCommanded ==
  pc # "Fatal" => \A i \in LEDs : LED_status[i] = LastCommanded(i)

\* C12: when the operator has accepted the position and capture_image_set
\* begins, the presumed Z offset is 0 and every LED is off, in LED_status
\* and at the device.
C12_AllOffWhenSequencingBegins ==
  pc = "capture_image_set" =>
    /\ Z_curr = << 0 >>
    /\ \A i \in LEDs : LED_status[i] = 0 /\ LastCommanded(i) = 0

\* ---------------------------------------------------------------------
\* The serial port and the pipes, byte by byte: send_command_and_wait of
\* muff_arduino.py and capture_frame_camview of muff_mainloop.py, called
\* in any order.  The session above takes them by their outcome only.

\* Largest number of bytes the Arduino sends.
MaxBytes == 4

\* Bytes the Arduino may send.
Bytes == {"0", "1", " ", "\r", "\n", "#"}

ByteStreams == UNION { [1 .. n -> Bytes] : n \in 0 .. MaxBytes }

\* Commands the driver of the link sends.
LinkCommands == {"3"}

\* Lines the frame grabber may have written before it closed the pipe; a
\* line without its end-of-line can only be the last one.
ReplyStreams ==
  { << >> } \cup
  { << a >> : a \in Replies \ {""} } \cup
  { << a, b >> : a \in {"ok\n", "bad\n", "OK\n"}, b \in Replies \ {""} }

\* A byte read_signif read and skipped, and the byte it returned.
ByteEvent(c) == [k |-> "byte", c |-> c, L |-> 0, V |-> 0, H |-> 0]
AckEvent(c) == [k |-> "ack", c |-> c, L |-> 0, V |-> 0, H |-> 0]

ByteEvents(bs) == [i \in 1 .. Len(bs) |-> ByteEvent(bs[i])]

\* The bytes of {bs} read before the bytes {rest} and the byte returned.
Skipped(bs, rest) == SubSeq(bs, 1, Len(bs) - Len(rest) - 1)

\* A message capture_frame_camview wrote to stderr.
ErrEvent(s) == [k |-> "err", c |-> s, L |-> 0, V |-> 0, H |-> 0]

\* skip_to_eol with only the test "c == b'\n'".
RECURSIVE skip_to_eol_NLOnly(_)
skip_to_eol_NLOnly(bs) ==
  IF bs = << >> THEN [blocked |-> TRUE, rest |-> << >>]
  ELSE IF Head(bs) = "\n" THEN [blocked |-> FALSE, rest |-> Tail(bs)]
  ELSE skip_to_eol_NLOnly(Tail(bs))

\* skip_to_eol on the bytes {bs} to come: the bytes left after the first
\* CR or NL, or blocked in sport.read() when there is none.
RECURSIVE skip_to_eol(_)
skip_to_eol(bs) ==
  IF bs = << >> THEN [blocked |-> TRUE, rest |-> << >>]
  ELSE IF Head(bs) \in {"\r", "\n"} THEN [blocked |-> FALSE, rest |-> Tail(bs)]
  ELSE skip_to_eol(Tail(bs))

\* read_signif on the bytes {bs} to come: the byte returned and the bytes
\* left, or blocked in sport.read() when the bytes run out.
RECURSIVE read_signif(_)
read_signif(bs) ==
  IF bs = << >> THEN [blocked |-> TRUE, c |-> "", rest |-> << >>]
  ELSE IF Head(bs) = "#"
    THEN LET k == skip_to_eol(Tail(bs))
         IN  IF k.blocked THEN [blocked |-> TRUE, c |-> "", rest |-> << >>]
                          ELSE read_signif(k.rest)
  ELSE IF Head(bs) \in {" ", "\r", "\n"} THEN read_signif(Tail(bs))
  ELSE [blocked |-> FALSE, c |-> Head(bs), rest |-> Tail(bs)]

\* wait_arduino_OK: where the process is after read_signif returned {c}.
wait_arduino_OK(c) == IF c = "0" THEN "link_ready" ELSE "Fatal"

\* Frames the driver of the link asks for.
LinkFrames == { << 0, 0, 0 >>, << 3, 0, 12 >> }

\* c2mPipe.readline(): the next line, "" when the pipe is closed and empty.
readline(pipe) == IF pipe = << >> THEN "" ELSE Head(pipe)

InitLink ==
  /\ pc = "link_ready"
  /\ argv_ok = TRUE
  /\ nL = 1
  /\ nV = 1
  /\ nH = 1
  /\ Z_step = 0
  /\ \/ /\ arduino_present = TRUE
        /\ camera_present = FALSE
        /\ sport_in \in ByteStreams
        /\ c2mPipe = << >>
     \/ /\ arduino_present = FALSE
        /\ camera_present = TRUE
        /\ sport_in = << >>
        /\ c2mPipe \in ReplyStreams
     \/ /\ arduino_present = FALSE
        /\ camera_present = FALSE
        /\ sport_in = << >>
        /\ c2mPipe = << >>
  /\ LED_status = [i \in LEDs |-> None]
  /\ Z_curr = << >>
  /\ L = 0
  /\ V = 0
  /\ H = 0
  /\ ok = TRUE
  /\ nread = 0
  /\ m2c_unflushed = FALSE
  /\ LED_vals = AllOff
  /\ ncalls = 0
  /\ log = << >>
  /\ dirs = {}
  /\ disk = {}
  /\ camview_pc = "none"
  /\ fifo = NotOpened
  /\ sport_out = << >>
  /\ m2cPipe = << >>

\* send_command_and_wait with send_command writing to the port without
\* the test "sport == None".
SendCommandAndWait_AlwaysWrite(command) ==
  /\ pc = "link_ready"
  /\ ncalls < MaxCalls
  /\ ncalls' = ncalls + 1
  /\ sport_out' = Append(sport_out, command)
  /\ IF ~ arduino_present
       THEN /\ log' = Append(log, DevEvent(command))
            /\ UNCHANGED << pc, sport_in >>
       ELSE LET r == read_signif(sport_in)
            IN  /\ sport_in' = r.rest
                /\ IF r.blocked
                     THEN /\ pc' = "readchar"
                          /\ log' = Append(log, DevEvent(command))
                                      \o ByteEvents(sport_in)
                     ELSE /\ pc' = wait_arduino_OK(r.c)
                          /\ log' = Append(log, DevEvent(command))
                                      \o ByteEvents(Skipped(sport_in, r.rest))
                                      \o << AckEvent(r.c) >>
  /\ UNCHANGED << m2cPipe, c2mPipe >>
  /\ UNCHANGED store
  /\ UNCHANGED peer
  /\ UNCHANGED << params, LED_vals, LED_status, Z_curr, L, V, H, ok, nread,
                  m2c_unflushed >>

\* send_command_and_wait(sport, command): with no Arduino nothing is
\* written or read; with one the command is written and the bytes to come
\* are read up to the return code, which must be '0'.
SendCommandAndWait(command) ==
  /\ pc = "link_ready"
  /\ ncalls < MaxCalls
  /\ ncalls' = ncalls + 1
  /\ IF ~ arduino_present
       THEN /\ log' = Append(log, DevEvent(command))
            /\ UNCHANGED << pc, sport_in, sport_out >>
       ELSE LET r == read_signif(sport_in)
            IN  /\ sport_out' = Append(sport_out, command)
                /\ sport_in' = r.rest
                /\ IF r.blocked
                     THEN /\ pc' = "readchar"
                          /\ log' = Append(log, DevEvent(command))
                                      \o ByteEvents(sport_in)
                     ELSE /\ pc' = wait_arduino_OK(r.c)
                          /\ log' = Append(log, DevEvent(command))
                                      \o ByteEvents(Skipped(sport_in, r.rest))
                                      \o << AckEvent(r.c) >>
  /\ UNCHANGED << m2cPipe, c2mPipe >>
  /\ UNCHANGED store
  /\ UNCHANGED peer
  /\ UNCHANGED << params, LED_vals, LED_status, Z_curr, L, V, H, ok, nread,
                  m2c_unflushed >>

\* capture_frame_camview without the test 's == ""' of line 320.
capture_frame_camview_message_NoClosedTest(s) ==
  IF s # "ok\n" THEN "{muff_camview.py} returned invalid response" ELSE ""

\* The message of capture_frame_camview for the line read, "" for none.
capture_frame_camview_message(s) ==
  IF s = "" THEN "pipe from {muff_camview.py} was closed"
  ELSE IF s # "ok\n" THEN "{muff_camview.py} returned invalid response"
  ELSE ""

\* capture_frame_camview for the frame {f}: with no frame grabber nothing
\* is written or read; with one the command and the end-of-line are
\* written and flushed, or the write fails, and one line is read.
CaptureFrameCamview(f) ==
  /\ pc = "link_ready"
  /\ ncalls < MaxCalls
  /\ ncalls' = ncalls + 1
  /\ LET command == "G " \o make_frame_filename(TopDir, f[1], f[2], f[3])
     IN  IF ~ camera_present
           THEN /\ log' = Append(log, ReqEvent("sim", f[1], f[2], f[3]))
                /\ ok' = TRUE
                /\ UNCHANGED << m2cPipe, c2mPipe, m2c_unflushed >>
           ELSE \/ LET s == readline(c2mPipe)
                       msg == capture_frame_camview_message(s)
                   IN  /\ m2cPipe' = m2cPipe \o << command, "\n" >>
                       /\ c2mPipe' = IF c2mPipe = << >> THEN << >> ELSE Tail(c2mPipe)
                       /\ ok' = capture_reply_ok(s)
                       /\ log' = log \o << ReqEvent("req", f[1], f[2], f[3]),
                                          RepEvent(s) >>
                                    \o (IF msg = "" THEN << >> ELSE << ErrEvent(msg) >>)
                       /\ UNCHANGED m2c_unflushed
                \/ /\ log' = log \o << ReqEvent("wfail", f[1], f[2], f[3]),
                                      ErrEvent("command to {muff_camview.py} could not be sent") >>
                   /\ ok' = FALSE
                   /\ m2c_unflushed' = TRUE
                   /\ UNCHANGED << m2cPipe, c2mPipe >>
  /\ UNCHANGED << sport_in, sport_out >>
  /\ UNCHANGED store
  /\ UNCHANGED peer
  /\ UNCHANGED << params, LED_vals, LED_status, Z_curr, L, V, H, nread, pc >>

NextLink ==
  \/ \E command \in LinkCommands : SendCommandAndWait(command)
  \/ \E f \in LinkFrames : CaptureFrameCamview(f)

SpecLink == InitLink /\ [][NextLink]_vars

\* ---------------------------------------------------------------------
\* Properties of the link to the Arduino.

EndOfLine == {"\r", "\n"}

\* Byte {i} of {bs} lies in a comment: a '#' comes at or before it with
\* no end-of-line in between.
InComment(bs, i) ==
  \E j \in 1 .. i :
    bs[j] = "#" /\ \A k \in j .. (i - 1) : bs[k] \notin EndOfLine

\* Byte {i} of {bs} is neither a blank, an end-of-line nor in a comment.
Significant(bs, i) ==
  bs[i] \notin ({" "} \cup EndOfLine) /\ ~ InComment(bs, i)

\* C13: with an Arduino, send_command_and_wait reads the bytes to come up
\* to the first that is neither a space, CR or LF nor part of a comment
\* (from '#' to the next CR or LF), and takes that byte as the return
\* code: the call returns when it is '0', the process ends when it is any
\* other byte, and the call stays in the read when there is no such byte.
\* After a return code other than '0' nothing more is written to the port.
C13_AckIsFirstSignificantByte ==
  /\ [][ \A command \in LinkCommands :
           (arduino_present /\ SendCommandAndWait(command)) =>
             LET sig == { i \in 1 .. Len(sport_in) : Significant(sport_in, i) }
             IN  IF sig = { }
                   THEN /\ pc' = "readchar"
                        /\ sport_in' = << >>
                   ELSE LET i == CHOOSE i \in sig : \A j \in sig : i <= j
                        IN  /\ Added = << DevEvent(command) >>
                                         \o ByteEvents(SubSeq(sport_in, 1, i - 1))
                                         \o << AckEvent(sport_in[i]) >>
                            /\ sport_in' = SubSeq(sport_in, i + 1, Len(sport_in))
                            /\ sport_out' = Append(sport_out, command)
                            /\ (pc' = "link_ready") <=> (sport_in[i] = "0")
                            /\ (pc' = "Fatal") <=> (sport_in[i] # "0") ]_vars
  /\ [](\A i \in 1 .. Len(log) :
          (log[i].k = "ack" /\ log[i].c # "0") => (i = Len(log) /\ pc = "Fatal"))

\* C13 witness: the Arduino sent a comment holding a '0', then '1': the
\* comment was skipped and the process ended on the '1'.
C13_Witness ==
  /\ pc = "Fatal"
  /\ log = << DevEvent("3"), ByteEvent("#"), ByteEvent("0"), ByteEvent("\r"),
              AckEvent("1") >>
  /\ sport_out = << "3" >>

\* C14: with no Arduino (sport is None) a device command returns without
\* writing to or reading from the serial port, and with no frame grabber a
\* capture request returns True without writing to or reading from the
\* pipes; neither blocks nor ends the process.
C14_SimulationDoesNoIO ==
  [][ /\ \A command \in LinkCommands :
           (~ arduino_present /\ SendCommandAndWait(command)) =>
             /\ sport_out' = sport_out
             /\ sport_in' = sport_in
             /\ Added = << DevEvent(command) >>
             /\ pc' = "link_ready"
      /\ \A f \in LinkFrames :
           (~ camera_present /\ CaptureFrameCamview(f)) =>
             /\ m2cPipe' = m2cPipe
             /\ c2mPipe' = c2mPipe
             /\ ~ m2c_unflushed'
             /\ ok'
             /\ Added = << ReqEvent("sim", f[1], f[2], f[3]) >>
             /\ pc' = "link_ready" ]_vars

\* C14 witness: with neither an Arduino nor a frame grabber a command and
\* a capture request have returned and nothing was written.
C14_Witness ==
  /\ ~ arduino_present
  /\ ~ camera_present
  /\ pc = "link_ready"
  /\ ok
  /\ log = << DevEvent("3"), ReqEvent("sim", 3, 0, 12) >>
  /\ wires = << << >>, << >>, << >>, << >> >>

\* ---------------------------------------------------------------------
\* set_Z_step on its own, for every step of the range below.

\* Largest step given to set_Z_step, in microns.
MaxStep == 1234

\* Steps given to set_Z_step, in tenths of a micron: the whole microns,
\* and the tenths around zero and around the two ends of the range.  The
\* lengths halfway between two microns are left out: there the product
\* Z_step*1000 of the floating point numbers decides.
ZStepInputs ==
  { 10 * m : m \in (- MaxStep) .. MaxStep } \cup
  { t \in (-10020 .. -9970) \cup (-20 .. 20) \cup (9970 .. 10020) : t % 10 # 5 }

InitZ ==
  /\ pc = "set_Z_step"
  /\ argv_ok = TRUE
  /\ nL = 1
  /\ nV = 1
  /\ nH = 1
  /\ Z_step \in ZStepInputs
  /\ arduino_present \in BOOLEAN
  /\ camera_present = FALSE
  /\ LED_status = AllOff
  /\ Z_curr = << >>
  /\ L = 0
  /\ V = 0
  /\ H = 0
  /\ ok = TRUE
  /\ nread = 0
  /\ m2c_unflushed = FALSE
  /\ LED_vals = AllOff
  /\ ncalls = 0
  /\ log = << >>
  /\ dirs = {}
  /\ disk = {}
  /\ camview_pc = "none"
  /\ fifo = NotOpened
  /\ sport_in = << >>
  /\ sport_out = << >>
  /\ m2cPipe = << >>
  /\ c2mPipe = << >>

NextZ == SetZStep

SpecZ == InitZ /\ [][NextZ]_vars

\* The command for a step of {m} microns as the firmware takes it: '4', the
\* sign, and the hundreds, tens and units of the magnitude.
SignAndThreeDigits(m) ==
  LET mag == IF m < 0 THEN - m ELSE m
  IN  "4" \o (IF m < 0 THEN "-" ELSE "+")
          \o DigitChars[(mag \div 100) + 1]
          \o DigitChars[((mag \div 10) % 10) + 1]
          \o DigitChars[(mag % 10) + 1]

\* C15: for a step of a whole number of microns in -999..+999 set_Z_step
\* sends one command: '4', a sign and exactly three digits, five characters.
C15_SignAndThreeDigits ==
  [][ (SetZStep /\ Z_step % 10 = 0
         /\ Z_step \div 10 >= -999 /\ Z_step \div 10 <= 999) =>
        /\ Len(Added) = 1
        /\ Added[1] = DevEvent(SignAndThreeDigits(Z_step \div 10))
        /\ Len(Added[1].c) = 5 ]_vars

\* C16 as stated: a step outside -0.999 mm .. +0.999 mm makes set_Z_step
\* fail without sending a command.
C16_OutsideIntervalSendsNothing ==
  [][ (SetZStep /\ (Z_step < -9990 \/ Z_step > 9990)) =>
        (pc' = "Crashed" /\ log' = log) ]_vars

\* C16 amended: a step that rounds to more than 999 microns in magnitude
\* (beyond 0.9995 mm) makes set_Z_step fail on its assertion without
\* sending a command, and every step within 0.9995 mm is sent, those
\* between 0.999 mm and 0.9995 mm as 999 microns.
C16_BeyondHalfMicronSendsNothing ==
  [][ SetZStep =>
        /\ (Z_step < -9995 \/ Z_step > 9995) =>
             (pc' = "Crashed" /\ log' = log /\ sport_out' = sport_out)
        /\ (Z_step > -9995 /\ Z_step < 9995) =>
             (Len(Added) = 1 /\ pc' \in {"place_camera", "Fatal"})
        /\ (Z_step > 9990 /\ Z_step < 9995) => Added = << DevEvent("4+999") >>
        /\ (Z_step < -9990 /\ Z_step > -9995) => Added = << DevEvent("4-999") >>
      ]_vars

\* C16 witness: set_Z_step(1.234) has failed and nothing was sent.
C16_Witness == pc = "Crashed" /\ Z_step = 12340 /\ log = << >>

\* ---------------------------------------------------------------------
\* Properties of the channel to the frame grabber.

\* The path of a frame the driver of the link asks for.
ExpectedPath(f) ==
  CASE f = << 0, 0, 0 >> ->
         "muff_scans/2018-09-04-1843-U/L_00/V_00/raw/frame_00000.jpg"
    [] f = << 3, 0, 12 >> ->
         "muff_scans/2018-09-04-1843-U/L_03/V_00/raw/frame_00012.jpg"

\* C17: with a frame grabber, a capture request whose write succeeds
\* writes 'G ', the path and one end-of-line, and reads one line: "ok\n"
\* gives True; the empty line of a closed pipe gives False with the
\* message of the closed pipe; any other line gives False with the message
\* of the invalid response.
C17_OneLineOutOneLineIn ==
  [][ \A f \in LinkFrames :
        (camera_present /\ CaptureFrameCamview(f) /\ ~ m2c_unflushed') =>
          LET s == IF c2mPipe = << >> THEN "" ELSE c2mPipe[1]
              req == ReqEvent("req", f[1], f[2], f[3])
          IN  /\ m2cPipe' = m2cPipe \o << "G " \o ExpectedPath(f), "\n" >>
              /\ c2mPipe' = SubSeq(c2mPipe, 2, Len(c2mPipe))
              /\ ok' <=> (s = "ok\n")
              /\ s = "ok\n" => Added = << req, RepEvent(s) >>
              /\ s = "" =>
                   Added = << req, RepEvent(s),
                              ErrEvent("pipe from {muff_camview.py} was closed") >>
              /\ s \notin {"", "ok\n"} =>
                   Added = << req, RepEvent(s),
                              ErrEvent("{muff_camview.py} returned invalid response") >>
    ]_vars

\* C17 witness: two requests were written, the first answered "ok\n", the
\* second "ok" without its end-of-line, which is an invalid response.
C17_Witness ==
  /\ camera_present
  /\ ~ ok
  /\ m2cPipe = << "G muff_scans/2018-09-04-1843-U/L_00/V_00/raw/frame_00000.jpg", "\n",
                  "G muff_scans/2018-09-04-1843-U/L_03/V_00/raw/frame_00012.jpg", "\n" >>
  /\ c2mPipe = << >>
  /\ log = << ReqEvent("req", 0, 0, 0), RepEvent("ok\n"),
              ReqEvent("req", 3, 0, 12), RepEvent("ok"),
              ErrEvent("{muff_camview.py} returned invalid response") >>

\* ---------------------------------------------------------------------
\* The manual positioning on its own, with every kind of line: from the
\* entry of place_camera_for_first_image to the start of capture_image_set
\* or the end of the process.

LinesUpSlow == { << "u" >>, << " ", "u", "\n" >> }
LinesDownSlow == { << "d" >>, << "\t", "d" >> }
LinesUpFast == { << "U" >> }
LinesDownFast == { << "D" >>, << "D", " ", "\n" >> }
LinesStop == { << "s" >>, << "S" >> }
LinesOk ==
  { << "o", "k" >>, << "O", "K" >>, << "O", "k" >>, << "o", "K" >>,
    << " ", "o", "k", " " >>, << "\t", "O", "K", "\n" >> }
LinesAbort ==
  { << "a", "b", "o", "r", "t" >>, << "A", "B", "O", "R", "T" >>,
    << "A", "b", "O", "r", "t", " " >>, << "q" >>, << "Q" >>, << " ", "Q", "\n" >> }
LinesOther ==
  { << >>, << " ", "\n" >>, << "x" >>, << "o", " ", "k" >>, << "u", "u" >>,
    << "o", "k", "a", "b" >> }

PlaceLines ==
  LinesUpSlow \cup LinesDownSlow \cup LinesUpFast \cup LinesDownFast \cup
  LinesStop \cup LinesOk \cup LinesAbort \cup LinesOther

InitPlace ==
  /\ pc = "place_camera"
  /\ argv_ok = TRUE
  /\ nL = 1
  /\ nV = 1
  /\ nH = 1
  /\ Z_step \in ZSteps
  /\ arduino_present \in BOOLEAN
  /\ camera_present \in BOOLEAN
  /\ LED_status = AllOff
  /\ Z_curr = << >>
  /\ L = nL
  /\ V = 0
  /\ H = 0
  /\ ok = TRUE
  /\ nread = 0
  /\ m2c_unflushed = FALSE
  /\ LED_vals = AllOff
  /\ ncalls = 0
  /\ log = << >>
  /\ dirs = {}
  /\ disk = {}
  /\ camview_pc = "none"
  /\ fifo = NotOpened
  /\ sport_in = << >>
  /\ sport_out = << >>
  /\ m2cPipe = << >>
  /\ c2mPipe = << >>

NextPlace ==
  \/ PlaceCameraLights
  \/ \E s \in PlaceLines : OperatorLine(s)
  \/ OperatorEOF
  \/ TerminateProcess

SpecPlace == InitPlace /\ [][NextPlace]_vars

\* The commands that light the four LEDs of the manual positioning.
PositioningCommands == << "+A", "+D", "+G", "+J" >>

\* The step leaves the manual positioning as it is, but for the commands
\* {cs} it sends.
StaysPositioning(cs) ==
  /\ Added = DevEvents(cs)
  /\ pc' = "AwaitManualPositioning"
  /\ Z_curr' = Z_curr
  /\ LED_status' = LED_status

\* C18: a line 'u', 'd', 'U' or 'D' sends the stop '3' and then the start
\* '1', '2', '6' or '7'; a line 's' or 'S' sends one stop; after them the
\* process waits for the next line of the operator.
C18_MotionIsStopThenStart ==
  [][ \A s \in PlaceLines :
        (OperatorLine(s) /\ pc' # "Fatal") =>
          /\ s \in LinesUpSlow => StaysPositioning(<< "3", "1" >>)
          /\ s \in LinesDownSlow => StaysPositioning(<< "3", "2" >>)
          /\ s \in LinesUpFast => StaysPositioning(<< "3", "6" >>)
          /\ s \in LinesDownFast => StaysPositioning(<< "3", "7" >>)
          /\ s \in LinesStop => StaysPositioning(<< "3" >>) ]_vars

\* C18 witness: the operator typed 'd' and then 'U'.
C18_Witness ==
  /\ pc = "AwaitManualPositioning"
  /\ nread = 2
  /\ log = DevEvents(PositioningCommands \o << "3", "2", "3", "6" >>)

\* C19: a line 'ok', in any letter case and with blanks around it, sends
\* one stop, sets Z_curr to 0 and returns True, so that capture_image_set
\* comes next; and the lines u, s, ok typed first send '3' '1', then '3',
\* then '3'.
C19_OkStopsOnceAndZeroes ==
  [][ \A s \in PlaceLines :
        (OperatorLine(s) /\ pc' # "Fatal") =>
          /\ s \in LinesOk =>
               /\ Added = DevEvents(<< "3" >>)
               /\ Z_curr' = << 0 >>
               /\ ok'
               /\ pc' = "capture_image_set"
          /\ (s = << "u" >> /\ log = DevEvents(PositioningCommands)) =>
               log' = DevEvents(PositioningCommands \o << "3", "1" >>)
          /\ (s = << "s" >> /\ log = DevEvents(PositioningCommands \o << "3", "1" >>)) =>
               log' = DevEvents(PositioningCommands \o << "3", "1", "3" >>)
          /\ (s = << "o", "k" >>
                /\ log = DevEvents(PositioningCommands \o << "3", "1", "3" >>)) =>
               log' = DevEvents(PositioningCommands \o << "3", "1", "3", "3" >>)
    ]_vars

\* C19 witness: the operator typed three lines that sent stop, up slow,
\* stop and stop, and the position is accepted.
C19_Witness ==
  /\ pc = "capture_image_set"
  /\ nread = 3
  /\ Z_curr = << 0 >>
  /\ log = DevEvents(PositioningCommands \o << "3", "1", "3", "3" >>)

\* ---------------------------------------------------------------------
\* Properties of an aborted manual positioning.

\* place_camera_for_first_image returned False: the process is at or past
\* terminate_process and no position was accepted.
PositioningAborted == pc \in {"terminate", "Aborted"} /\ Z_curr = << >>

\* C20: a line 'abort' or 'q', in any letter case, and the end of the
\* input send one stop and end the manual positioning with False, Z_curr
\* left undefined; from there the process goes through terminate_process
\* to the exit with status 1 (or dies on an unacknowledged command), no
\* step-once command and no capture request is ever sent, and
\* create_directories, which only capture_image_set calls, is not run.
C20_AbortEndsTheSession ==
  /\ [][ /\ \A s \in OperatorLines \cap LinesAbort :
              (OperatorLine(s) /\ pc' # "Fatal") =>
                /\ Added = DevEvents(<< "3" >>)
                /\ pc' = "terminate"
                /\ ~ ok'
                /\ Z_curr' = << >>
         /\ (OperatorEOF /\ pc' # "Fatal") =>
              /\ Added = DevEvents(<< "3" >>)
              /\ pc' = "terminate"
              /\ ~ ok'
              /\ Z_curr' = << >>
         /\ PositioningAborted =>
              /\ pc' \in {"Aborted", "Fatal"}
              /\ Z_curr' = << >>
         /\ BeginCaptureImageSet => Z_curr = << 0 >> ]_vars
  /\ [](PositioningAborted =>
          /\ ~ ok
          /\ Captures = << >>
          /\ CountCmd("5") = 0)
  /\ [](pc = "Done" => Z_curr # << >>)

\* C20 witness: the operator started the motor, then aborted: the process
\* has exited with status 1 after the stop of the abort and the cleanup.
C20_Witness ==
  /\ pc = "Aborted"
  /\ Z_curr = << >>
  /\ nread = 2
  /\ SubSeq(log, Len(log) - 4, Len(log)) = DevEvents(<< "3", "1", "3", "3", "-@" >>)

\* ---------------------------------------------------------------------
\* Properties of the lines the manual positioning does not know.

\* C21: a blank line or a line that is no command sends nothing, leaves
\* Z_curr and LED_status as they are, and the process waits for the next
\* line of the operator.
C21_UnknownLineChangesNothing ==
  [][ \A s \in LinesOther :
        OperatorLine(s) =>
          /\ log' = log
          /\ Z_curr' = Z_curr
          /\ LED_status' = LED_status
          /\ ok' = ok
          /\ pc' = "AwaitManualPositioning" ]_vars

\* C21 witness: the operator typed two lines that are no commands and
\* nothing was sent but the commands that lit the positioning LEDs.
C21_Witness ==
  /\ pc = "AwaitManualPositioning"
  /\ nread = 2
  /\ log = DevEvents(PositioningCommands)
  /\ Z_curr = << >>
  /\ LED_status = PositioningVals

\* ---------------------------------------------------------------------
\* Properties of the command line and of the end of the process.

\* The ranges of the scan parameters.
ParameterContract ==
  /\ nL >= 1 /\ nL <= 24
  /\ nV = 1
  /\ nH >= 1 /\ nH <= 99
  /\ Z_step >= -9990 /\ Z_step <= 9990

\* C22: when the command line is malformed or a parameter is out of its
\* range, no command is sent to the device and the manual positioning
\* does not begin.
C22_BadParametersStartNothing ==
  (~ argv_ok \/ ~ ParameterContract) =>
    /\ \A i \in 1 .. Len(log) : ~ IsDev(log[i])
    /\ pc \notin {"place_camera", "AwaitManualPositioning", "capture_image_set"}

\* The last two entries of the log are the cleanup commands.
CleanupSent ==
  /\ Len(log) >= 2
  /\ SubSeq(log, Len(log) - 1, Len(log)) = DevEvents(<< "3", "-@" >>)

\* The process has ended on one of the failures of a session: a bad
\* command line, the operator's abort or the end of their input, or a
\* failed capture.
EndedOnFailure ==
  /\ pc \in {"Aborted", "Crashed"}
  /\ \/ ~ argv_ok
     \/ ~ ParameterContract
     \/ (nread > 0 /\ Z_curr = << >>)
     \/ \E i \in 1 .. Len(log) : CaptureFailedAt(i)

\* C23: the exit with status 0 comes only after nL*nV*nH successful
\* captures and the cleanup commands, and the process that ends on a bad
\* command line, an abort, the end of the input or a failed capture ends
\* in terminate_process, with the cleanup commands sent and status 1.
C23_ExitThroughTerminateProcess ==
  /\ pc = "Done" =>
       /\ Len(Captures) = nL * nV * nH
       /\ \A i \in 1 .. Len(log) : ~ CaptureFailedAt(i)
       /\ CleanupSent
  /\ EndedOnFailure => (pc = "Aborted" /\ CleanupSent)

\* ---------------------------------------------------------------------
\* Properties of the directories and of the paths of the frames.

\* The directory of the frames of lighting condition {l} and view {v}.
TwoDigits(n) == DigitChars[(n \div 10) + 1] \o DigitChars[(n % 10) + 1]

FiveDigits(n) ==
  DigitChars[(n \div 10000) + 1] \o DigitChars[((n \div 1000) % 10) + 1] \o
  DigitChars[((n \div 100) % 10) + 1] \o TwoDigits(n % 100)

FrameDir(l, v) ==
  "muff_scans/2018-09-04-1843-U/L_" \o TwoDigits(l) \o "/V_" \o TwoDigits(v)
    \o "/raw"

FramePath(l, v, h) == FrameDir(l, v) \o "/frame_" \o FiveDigits(h) \o ".jpg"

\* No capture request and no step-once command was sent.
NothingCaptured ==
  /\ Captures = << >>
  /\ CountCmd("5") = 0
  /\ m2cPipe = << >>

\* C24: when the directory of the minute exists as create_directories
\* begins, or the directory of a lighting condition exists when its turn
\* comes, the process ends there, by an uncaught exception: it sends
\* nothing more, and it had sent no capture request and no step-once
\* command.
C24_ExistingDirectoryIsFatal ==
  /\ [][ ( \/ /\ BeginCaptureImageSet
              /\ capture_image_set_asserts
              /\ "muff_scans/2018-09-04-1843-U" \in dirs
           \/ /\ MakeSubdir
              /\ FrameDir(L, V) \in dirs )
         => (pc' = "Crashed" /\ log' = log /\ m2cPipe' = m2cPipe) ]_vars
  /\ [][ pc # "Crashed" ]_vars
  /\ [] (pc \in {"capture_image_set", "create_directories"} => NothingCaptured)

\* C24 witness: of three lighting conditions the directory of the second
\* was made by another process; the process died on it with the first
\* directory made and nothing captured.
C24_Witness ==
  /\ pc = "Crashed"
  /\ nL = 3
  /\ L = 1
  /\ dirs = { "muff_scans/2018-09-04-1843-U", FrameDir(0, 0), FrameDir(1, 0) }
  /\ NothingCaptured

\* Lighting conditions, views and heights of one and of more digits.
PathTriples ==
  {0, 1, 9, 10, 11, 23, 99} \X {0, 1, 10, 99} \X {0, 1, 10, 11, 98, 100, 12345, 99999}

\* The paths of the triples above have the format, and two triples have
\* two paths.
PathsFormattedAndDistinct ==
  /\ \A t \in PathTriples :
       make_frame_filename(TopDir, t[1], t[2], t[3]) = FramePath(t[1], t[2], t[3])
  /\ \A t, u \in PathTriples :
       t # u => make_frame_filename(TopDir, t[1], t[2], t[3])
                  # make_frame_filename(TopDir, u[1], u[2], u[3])

\* The capture requests written to the pipe, in order.
Requests == SelectSeq(log, LAMBDA e : e.k = "req")

InitPlanner ==
  /\ pc = "define_LED_vals"
  /\ argv_ok = TRUE
  /\ nL \in 1 .. nL_max
  /\ L \in 0 .. (nL - 1)
  /\ nV = 1
  /\ nH = 1
  /\ Z_step = 0
  /\ arduino_present = FALSE
  /\ camera_present = FALSE
  /\ LED_status = AllOff
  /\ Z_curr = << >>
  /\ V = 0
  /\ H = 0
  /\ ok = TRUE
  /\ nread = 0
  /\ m2c_unflushed = FALSE
  /\ LED_vals = AllOff
  /\ ncalls = 0
  /\ log = << >>
  /\ sport_in = << >>
  /\ sport_out = << >>
  /\ m2cPipe = << >>
  /\ c2mPipe = << >>
  /\ dirs = {}
  /\ disk = {}
  /\ camview_pc = "none"
  /\ fifo = NotOpened

\* define_LED_vals(L, nL): the vector is returned, or the call ends in an
\* uncaught exception.
DefineLEDVals ==
  /\ pc = "define_LED_vals"
  /\ IF define_LED_vals_raises(L, nL)
       THEN Crash /\ UNCHANGED LED_vals
       ELSE pc' = "planned" /\ LED_vals' = define_LED_vals(L, nL)
  /\ UNCHANGED wires
  /\ UNCHANGED store
  /\ UNCHANGED peer
  /\ UNCHANGED << params, ncalls, LED_status, Z_curr, L, V, H, ok, nread,
                  m2c_unflushed, log >>

NextPlanner == DefineLEDVals

SpecPlanner == InitPlanner /\ [][NextPlanner]_vars

\* ---------------------------------------------------------------------
\* Properties of the light pattern planner.

\* The LEDs a vector lights.
LitLEDs(vals) == { i \in LEDs : vals[i] = 1 }

\* The call of define_LED_vals is over.
PlannerCalled == pc # "define_LED_vals"

\* C26: for every nL in 1..24 and L in 0..nL-1 the planner returns a
\* vector of 24 entries, each 0.0 or 1.0, that lights 1 LED when nL > 12,
\* 2 when nL = 12 and 6 when nL < 12.
C26_VectorOfEveryCondition ==
  PlannerCalled =>
    /\ pc = "planned"
    /\ DOMAIN LED_vals = 0 .. 23
    /\ \A i \in 0 .. 23 : LED_vals[i] \in {0, 1}
    /\ Cardinality(LitLEDs(LED_vals)) =
         (IF nL > 12 THEN 1 ELSE IF nL = 12 THEN 2 ELSE 6)

\* C27: for nL in 13..23 and L in 12..nL-1 the planner lights exactly the
\* LED Lx+12 of the bottom tier, Lx = ((L-12)*12+6) div (nL-12), which
\* lies in 0..11.
C27_BottomTierLED ==
  (PlannerCalled /\ nL >= 13 /\ nL <= 23 /\ L >= 12) =>
    LET Lx == ((L - 12) * 12 + 6) \div (nL - 12)
    IN  /\ Lx >= 0 /\ Lx <= 11
        /\ pc = "planned"
        /\ LitLEDs(LED_vals) = {Lx + 12}

\* The six LEDs of the two patterns.
CentricAt(Lm) == {Lm, Lm + 12} \cup { (Lm + k) % 12 : k \in {1, 11, 4, 8} }

BridgingAt(La) ==
  {La, La + 12, (La + 1) % 12, ((La + 1) % 12) + 12, (La + 5) % 12, (La + 8) % 12}

MaxLines == 2

Letters ==
  { "a", "b", "c", "d", "e", "f", "g", "h", "i", "j", "k", "l", "m",
    "n", "o", "p", "q", "r", "s", "t", "u", "v", "w", "x", "y", "z",
    "A", "B", "C", "D", "E", "F", "G", "H", "I", "J", "K", "L", "M",
    "N", "O", "P", "Q", "R", "S", "T", "U", "V", "W", "X", "Y", "Z" }

Digits == { "0", "1", "2", "3", "4", "5", "6", "7", "8", "9" }

\* The pattern of the acceptable file names:
\* ^[A-Za-z0-9_.][-A-Za-z0-9_./]*[.][a-zA-Z0-9]+$
filepat_match(fname) ==
  /\ Len(fname) >= 3
  /\ fname[1] \in Letters \cup Digits \cup {"_", "."}
  /\ \E k \in 2 .. (Len(fname) - 1) :
       /\ \A i \in 2 .. (k - 1) : fname[i] \in Letters \cup Digits \cup {"-", "_", ".", "/"}
       /\ fname[k] = "."
       /\ \A i \in (k + 1) .. Len(fname) : fname[i] \in Letters \cup Digits

\* Python's lstrip(' \t').
RECURSIVE LStripBlanks(_)
LStripBlanks(s) ==
  IF s # << >> /\ Head(s) \in {" ", "\t"} THEN LStripBlanks(Tail(s)) ELSE s

\* The command of a line: the line without the blanks before it and the
\* blanks and end-of-line after it.
command_of(line) == RStrip(LStripBlanks(line))

\* The file name of a 'G' command.
fname_of(cmd) == Strip(Tail(cmd))

\* Lines the frame grabber may be sent.
CamviewLines ==
  { << "G", " ", "a", ".", "j", "p", "g", "\n" >>,
    << " ", "G", "b", "/", "a", ".", "j", "p", "g", " ", "\n" >>,
    << "G", " ", "-", "a", ".", "j", "p", "g", "\n" >>,
    << "G", " ", "a", "\n" >>,
    << "G", "\n" >>,
    << "\n" >>,
    << " ", "\t", "\r", "\n" >>,
    << "#", "G", " ", "a", ".", "j", "p", "g", "\n" >>,
    << "Q", "\n" >>,
    << "q", "u", "i", "t", "\n" >>,
    << "g", " ", "a", ".", "j", "p", "g", "\n" >>,
    << "\r", "G", " ", "a", ".", "j", "p", "g", "\n" >> }

CamviewStreams == UNION { [1 .. n -> CamviewLines] : n \in 0 .. MaxLines }

InitCamview ==
  /\ pc = "camview_loop"
  /\ argv_ok = TRUE
  /\ nL = 1
  /\ nV = 1
  /\ nH = 1
  /\ Z_step = 0
  /\ arduino_present = FALSE
  /\ camera_present = TRUE
  /\ LED_status = AllOff
  /\ Z_curr = << >>
  /\ L = 0
  /\ V = 0
  /\ H = 0
  /\ ok = TRUE
  /\ nread = 0
  /\ m2c_unflushed = FALSE
  /\ LED_vals = AllOff
  /\ ncalls = 0
  /\ log = << >>
  /\ sport_in = << >>
  /\ sport_out = << >>
  /\ m2cPipe \in CamviewStreams
  /\ c2mPipe = << >>
  /\ dirs = {}
  /\ disk = {}
  /\ camview_pc = "none"
  /\ fifo = NotOpened

\* process_command with the ok response written for a comment line too.
process_command_AckIgnored(line, grabbed, res) ==
  LET cmd == command_of(line)
      quiet == [exit |-> "", reply |-> << >>, file |-> {}, err |-> << >>]
  IN  IF cmd = << >> THEN quiet
      ELSE IF cmd[1] = "#" THEN [quiet EXCEPT !.reply = << "ok\n" >>]
      ELSE IF cmd[1] = "G" THEN
        IF ~ filepat_match(fname_of(cmd))
          THEN [quiet EXCEPT !.exit = "1", !.err = << ErrEvent("invalid file name") >>]
        ELSE IF ~ grabbed
          THEN [quiet EXCEPT !.exit = "1",
                             !.err = << ErrEvent("image grab failed, quitting") >>]
        ELSE [exit |-> "",
              reply |-> << "ok\n" >>,
              file |-> IF res THEN { fname_of(cmd) } ELSE {},
              err |-> IF res THEN << >> ELSE << ErrEvent("image write failed") >>]
      ELSE IF cmd[1] = "Q" \/ cmd[1] = "q" THEN [quiet EXCEPT !.exit = "0"]
      ELSE [quiet EXCEPT !.exit = "1", !.err = << ErrEvent("unrecognized command") >>]

\* process_command for the line {line}; {grabbed} tells whether the
\* camera gave a frame (in one of the two trials of read_image) and
\* {res} is the result of cv2.imwrite.
process_command(line, grabbed, res) ==
  LET cmd == command_of(line)
      quiet == [exit |-> "", reply |-> << >>, file |-> {}, err |-> << >>]
  IN  IF cmd = << >> \/ cmd[1] = "#" THEN quiet
      ELSE IF cmd[1] = "G" THEN
        IF ~ filepat_match(fname_of(cmd))
          THEN [quiet EXCEPT !.exit = "1", !.err = << ErrEvent("invalid file name") >>]
        ELSE IF ~ grabbed
          THEN [quiet EXCEPT !.exit = "1",
                             !.err = << ErrEvent("image grab failed, quitting") >>]
        ELSE [exit |-> "",
              reply |-> << "ok\n" >>,
              file |-> IF res THEN { fname_of(cmd) } ELSE {},
              err |-> IF res THEN << >> ELSE << ErrEvent("image write failed") >>]
      ELSE IF cmd[1] = "Q" \/ cmd[1] = "q" THEN [quiet EXCEPT !.exit = "0"]
      ELSE [quiet EXCEPT !.exit = "1", !.err = << ErrEvent("unrecognized command") >>]

\* The event loop got a line on its standard input.
CamviewCommand ==
  /\ pc = "camview_loop"
  /\ m2cPipe # << >>
  /\ \E grabbed \in BOOLEAN, res \in BOOLEAN :
       LET r == process_command(Head(m2cPipe), grabbed, res)
       IN  /\ m2cPipe' = Tail(m2cPipe)
           /\ c2mPipe' = c2mPipe \o r.reply
           /\ disk' = disk \cup r.file
           /\ log' = log \o r.err
           /\ pc' = IF r.exit = "" THEN pc ELSE "camview_exit" \o r.exit
  /\ UNCHANGED << sport_in, sport_out, dirs >>
  /\ UNCHANGED peer
  /\ UNCHANGED << params, ncalls, LED_vals, LED_status, Z_curr, L, V, H, ok, nread,
                  m2c_unflushed >>

\* The standard input is at its end: readline returns the empty string.
CamviewEOF ==
  /\ pc = "camview_loop"
  /\ m2cPipe = << >>
  /\ pc' = "camview_exit0"
  /\ log' = Append(log, ErrEvent("input stream closed. Bye."))
  /\ UNCHANGED wires
  /\ UNCHANGED store
  /\ UNCHANGED peer
  /\ UNCHANGED << params, ncalls, LED_vals, LED_status, Z_curr, L, V, H, ok, nread,
                  m2c_unflushed >>

\* No input within the timeout: the monitor window is refreshed, which
\* ends the process when the camera gives no frame.
CamviewRefresh ==
  /\ pc = "camview_loop"
  /\ \E grabbed \in BOOLEAN :
       IF grabbed
         THEN UNCHANGED << pc, log >>
         ELSE /\ pc' = "camview_exit1"
              /\ log' = Append(log, ErrEvent("image grab failed, quitting"))
  /\ UNCHANGED wires
  /\ UNCHANGED store
  /\ UNCHANGED peer
  /\ UNCHANGED << params, ncalls, LED_vals, LED_status, Z_curr, L, V, H, ok, nread,
                  m2c_unflushed >>

NextCamview ==
  \/ CamviewCommand
  \/ CamviewEOF
  \/ CamviewRefresh

SpecCamview == InitCamview /\ [][NextCamview]_vars

\* ---------------------------------------------------------------------
\* Properties of the frame grabber.

\* C30: the frame grabber writes 'ok' only when the frame was grabbed and
\* written: the file named by the command is on the disk and no failure
\* of the write was reported.
C30_OkOnlyOnSuccess ==
  [][ c2mPipe' # c2mPipe =>
        /\ c2mPipe' = Append(c2mPipe, "ok\n")
        /\ Strip(Tail(LStripBlanks(Head(m2cPipe)))) \in disk'
        /\ \A i \in 1 .. Len(Added) : Added[i].k # "err" ]_vars

\* ---------------------------------------------------------------------
\* Properties of the bytes left unread and of the raw reads.

\* C31: the bytes the Arduino sent before a command is written (those left
\* unread when an earlier command returned) are discarded before the
\* write, so none of them is taken as the return code of the command.
C31_StaleBytesAreDiscarded ==
  [][ \A command \in LinkCommands :
        ( /\ arduino_present
          /\ sport_out # << >>
          /\ sport_in # << >>
          /\ SendCommandAndWait(command) ) =>
          \A i \in 1 .. Len(Added) : Added[i].k # "ack" ]_vars

\* ---------------------------------------------------------------------
\* muff_arduino.py: switch_LED and switch_all_LEDs called with any
\* intensity, and set_light_condition called with the vectors of the
\* planner.  The intensities passed to the two are in hundredths here
\* (100 is 1.0); the vectors of the planner hold 0 and 1.

Percent(v) == v * 100

\* Intensities the driver passes, in hundredths.
Intensities == {-50, 0, 50, 99, 100, 150}

\* switch_LED with '+' for every intensity of one half or more.
switch_LED_opcode_Threshold(pwr) == IF pwr >= 50 THEN "+" ELSE "-"

\* Lines 157-166 of switch_LED: the opcode for the intensity {pwr}, or
\* the assertion that fails, or the exit of the partial intensity.
switch_LED_opcode(pwr) ==
  IF ~ (pwr >= 0 /\ pwr <= 100) THEN "assert"
  ELSE IF pwr = 100 THEN "+"
  ELSE IF pwr = 0 THEN "-"
  ELSE "exit"

\* Lines 189-198 of switch_all_LEDs: the same for all the LEDs.
switch_all_LEDs_opcode(pwr) ==
  IF ~ (pwr >= 0 /\ pwr <= 100) THEN "assert"
  ELSE IF pwr = 100 THEN "+"
  ELSE IF pwr = 0 THEN "-"
  ELSE "exit"

PartialIntensity == ErrEvent("partial LED intensity not implemented yet.")

InitLED ==
  /\ pc = "LED_ready"
  /\ argv_ok = TRUE
  /\ nL = 1
  /\ nV = 1
  /\ nH = 1
  /\ Z_step = 0
  /\ arduino_present \in BOOLEAN
  /\ camera_present = FALSE
  /\ LED_status = AllOff
  /\ Z_curr = << >>
  /\ L = 0
  /\ V = 0
  /\ H = 0
  /\ ok = TRUE
  /\ nread = 0
  /\ m2c_unflushed = FALSE
  /\ LED_vals = AllOff
  /\ ncalls = 0
  /\ log = << >>
  /\ sport_in = << >>
  /\ sport_out = << >>
  /\ m2cPipe = << >>
  /\ c2mPipe = << >>
  /\ dirs = {}
  /\ disk = {}
  /\ camview_pc = "none"
  /\ fifo = NotOpened

\* The end of a call of switch_LED or switch_all_LEDs whose opcode is
\* {op} and whose LED name is {name}.
SwitchWith(op, name) ==
  CASE op = "assert" -> Crash /\ log' = log
    [] op = "exit" -> pc' = "Fatal" /\ log' = Append(log, PartialIntensity)
    [] OTHER ->
         LET cs == << op \o name >>
         IN  \E o \in SendOutcomes(cs) :
               /\ log' = Sent(cs, o)
               /\ pc' = IF o.fatal THEN "Fatal" ELSE pc

\* A call switch_LED(sport, lix, pwr).
SwitchLED(lix, pwr) ==
  /\ pc = "LED_ready"
  /\ ncalls < MaxCalls
  /\ ncalls' = ncalls + 1
  /\ IF ~ (lix >= 0 /\ lix < num_LEDs)
       THEN Crash /\ log' = log
       ELSE SwitchWith(switch_LED_opcode(pwr), LEDNames[lix + 1])
  /\ UNCHANGED wires
  /\ UNCHANGED store
  /\ UNCHANGED peer
  /\ UNCHANGED << params, LED_vals, LED_status, Z_curr, L, V, H, ok, nread,
                  m2c_unflushed >>

\* A call switch_all_LEDs(sport, pwr).
SwitchAllLEDs(pwr) ==
  /\ pc = "LED_ready"
  /\ ncalls < MaxCalls
  /\ ncalls' = ncalls + 1
  /\ SwitchWith(switch_all_LEDs_opcode(pwr), "@")
  /\ UNCHANGED wires
  /\ UNCHANGED store
  /\ UNCHANGED peer
  /\ UNCHANGED << params, LED_vals, LED_status, Z_curr, L, V, H, ok, nread,
                  m2c_unflushed >>

\* The opcodes of the calls of switch_LED that set_light_condition(vals)
\* makes, in the order of its loop.
set_light_condition_opcodes(vals, status) ==
  LET ch == ChangedLEDs(vals, status)
  IN  [j \in 1 .. Len(ch) |-> switch_LED_opcode(Percent(vals[ch[j]]))]

\* The sequencer's call set_light_condition(sport, define_LED_vals(l, nl)):
\* it goes as far as the first call of switch_LED that does not send.
SequencerSetLight(l, nl) ==
  /\ pc = "LED_ready"
  /\ ncalls < MaxCalls
  /\ ncalls' = ncalls + 1
  /\ ~ define_LED_vals_raises(l, nl)
  /\ LET vals == define_LED_vals(l, nl)
         ops == set_light_condition_opcodes(vals, LED_status)
         bad == { j \in 1 .. Len(ops) : ops[j] \notin {"+", "-"} }
     IN  /\ LED_vals' = vals
         /\ IF bad # { }
              THEN LET j == CHOOSE j \in bad : \A k \in bad : j <= k
                       cs == SubSeq(set_light_condition_commands(vals, LED_status), 1, j - 1)
                   IN  /\ log' = log \o DevEvents(cs)
                                   \o (IF ops[j] = "exit" THEN << PartialIntensity >>
                                                          ELSE << >>)
                       /\ pc' = IF ops[j] = "exit" THEN "Fatal" ELSE "Crashed"
                       /\ LED_status' = set_light_condition_status(vals, LED_status, j - 1)
              ELSE LET cs == LightCommands(vals, << >>)
                   IN  \E o \in SendOutcomes(cs) :
                         /\ log' = Sent(cs, o)
                         /\ IF o.fatal
                              THEN /\ pc' = "Fatal"
                                   /\ LED_status' = StatusAtFatal(vals, o.n)
                              ELSE /\ pc' = pc
                                   /\ LED_status' =
                                        set_light_condition_result(vals, LED_status)
  /\ UNCHANGED wires
  /\ UNCHANGED store
  /\ UNCHANGED peer
  /\ UNCHANGED << params, Z_curr, L, V, H, ok, nread, m2c_unflushed >>

\* Numbers of lighting conditions the sequencer is run with here.
LEDConditions == {1, 12}

NextLED ==
  \/ \E lix \in TestLEDs \cup {24}, pwr \in Intensities : SwitchLED(lix, pwr)
  \/ \E pwr \in Intensities : SwitchAllLEDs(pwr)
  \/ \E nl \in LEDConditions : \E l \in 0 .. (nl - 1) : SequencerSetLight(l, nl)

SpecLED == InitLED /\ [][NextLED]_vars

\* ---------------------------------------------------------------------
\* Properties of the intensities.

\* The step sent no command.
NoCommandAdded == \A i \in 1 .. Len(Added) : ~ IsDev(Added[i])

\* C33: switch_LED and switch_all_LEDs called with an intensity other
\* than 0.0 and 1.0 end the process and send no command; with 1.0 and 0.0
\* they send '+' and '-'; and the calls the sequencer makes with the
\* vectors of the planner never pass another intensity, so they never end
\* so.
C33_OnlyFullIntensities ==
  /\ [][ \A lix \in TestLEDs, pwr \in Intensities :
           SwitchLED(lix, pwr) =>
             IF pwr \in {0, 100}
               THEN /\ Len(Added) = 1
                    /\ Added[1] = DevEvent((IF pwr = 100 THEN "+" ELSE "-")
                                             \o LEDNames[lix + 1])
               ELSE NoCommandAdded /\ pc' \in {"Fatal", "Crashed"} ]_vars
  /\ [][ \A pwr \in Intensities :
           SwitchAllLEDs(pwr) =>
             IF pwr \in {0, 100}
               THEN /\ Len(Added) = 1
                    /\ Added[1] = DevEvent(IF pwr = 100 THEN "+@" ELSE "-@")
               ELSE NoCommandAdded /\ pc' \in {"Fatal", "Crashed"} ]_vars
  /\ [][ \A nl \in LEDConditions : \A l \in 0 .. (nl - 1) :
           SequencerSetLight(l, nl) =>
             /\ \A i \in LEDs : Percent(LED_vals'[i]) \in {0, 100}
             /\ PartialIntensity \notin { Added[i] : i \in 1 .. Len(Added) }
             /\ pc' # "Crashed" ]_vars

\* C33 witness: LED B was asked half its intensity after LED A was
\* switched on; the process ended with the one command '+A' sent.
C33_Witness ==
  /\ pc = "Fatal"
  /\ ~ arduino_present
  /\ log = << DevEvent("+A"), PartialIntensity >>

\* ---------------------------------------------------------------------
\* muff_arduino.py: readchar on its own.  Here sport_in holds the results
\* of the calls of sport.read() to come, each a string of bytes.

\* Results of sport.read(): no byte, one byte, two bytes.
RawReads == { << >>, << "0" >>, << "1" >>, << " " >>, << "0", "0" >> }

RawStreams == UNION { [1 .. n -> RawReads] : n \in 0 .. MaxBytes }

\* readchar with show_chrs defined: the loop writes its message and reads
\* again.
RECURSIVE readchar_Retry(_)
readchar_Retry(reads) ==
  IF reads = << >> THEN [end |-> "blocked", c |-> << >>, rest |-> << >>]
  ELSE IF Len(Head(reads)) = 1
    THEN [end |-> "return", c |-> Head(reads), rest |-> Tail(reads)]
  ELSE readchar_Retry(Tail(reads))

\* readchar on the results {reads}: the byte returned and the results
\* left; or blocked in sport.read(); or, for a result that is not one
\* byte, the NameError of the undefined show_chrs in the message of line
\* 314, which nothing catches.
readchar(reads) ==
  IF reads = << >> THEN [end |-> "blocked", c |-> << >>, rest |-> << >>]
  ELSE IF Len(Head(reads)) = 1
    THEN [end |-> "return", c |-> Head(reads), rest |-> Tail(reads)]
  ELSE [end |-> "NameError", c |-> << >>, rest |-> Tail(reads)]

InitRead ==
  /\ pc = "read_ready"
  /\ argv_ok = TRUE
  /\ nL = 1
  /\ nV = 1
  /\ nH = 1
  /\ Z_step = 0
  /\ arduino_present = TRUE
  /\ camera_present = FALSE
  /\ LED_status = AllOff
  /\ Z_curr = << >>
  /\ L = 0
  /\ V = 0
  /\ H = 0
  /\ ok = TRUE
  /\ nread = 0
  /\ m2c_unflushed = FALSE
  /\ LED_vals = AllOff
  /\ ncalls = 0
  /\ log = << >>
  /\ sport_in \in RawStreams
  /\ sport_out = << >>
  /\ m2cPipe = << >>
  /\ c2mPipe = << >>
  /\ dirs = {}
  /\ disk = {}
  /\ camview_pc = "none"
  /\ fifo = NotOpened

\* A call readchar(sport).
Readchar ==
  /\ pc = "read_ready"
  /\ LET r == readchar(sport_in)
     IN  /\ sport_in' = r.rest
         /\ CASE r.end = "return" ->
                   pc' = pc /\ log' = Append(log, ByteEvent(r.c[1]))
              [] r.end = "blocked" ->
                   pc' = "readchar" /\ log' = log
              [] OTHER ->
                   Crash /\ log' = log
  /\ UNCHANGED << sport_out, m2cPipe, c2mPipe >>
  /\ UNCHANGED store
  /\ UNCHANGED peer
  /\ UNCHANGED << params, ncalls, LED_vals, LED_status, Z_curr, L, V, H, ok, nread,
                  m2c_unflushed >>

NextRead == Readchar

SpecRead == InitRead /\ [][NextRead]_vars

\* C32: a raw read of no byte or of more than one byte ends the process:
\* that read is the last one, nothing is returned for it, and the bytes
\* readchar does return are the results of one byte, in their order.
C32_BadReadIsFatal ==
  /\ [][ (Readchar /\ sport_in # << >>) =>
           IF Len(Head(sport_in)) = 1
             THEN /\ Added = << ByteEvent(Head(sport_in)[1]) >>
                  /\ pc' = "read_ready"
                  /\ sport_in' = Tail(sport_in)
             ELSE /\ Added = << >>
                  /\ pc' = "Crashed"
                  /\ sport_in' = Tail(sport_in) ]_vars
  /\ [][ pc \notin {"Crashed", "readchar"} ]_vars

\* C32 witness: after the byte '0' the port gave an empty result; the
\* process ended with the results after it unread.
C32_Witness ==
  /\ pc = "Crashed"
  /\ log = << ByteEvent("0") >>
  /\ sport_in = << << "1" >>, << >> >>

\* ---------------------------------------------------------------------
\* Properties of the device at the end of the process and during the
\* sequence of captures.

StartCommands == {"1", "2", "6", "7"}

MotorCommands == StartCommands \cup {stop_motor_command}

\* The places in the log of the commands that start or stop the motor.
MotorIndices ==
  { j \in 1 .. Len(log) :
      IsDev(log[j]) /\ log[j].c \in MotorCommands }

\* The motor was last commanded to run.
MotorLeftRunning ==
  /\ MotorIndices # { }
  /\ LET last == CHOOSE j \in MotorIndices : \A k \in MotorIndices : k <= j
     IN  log[last].c \in StartCommands

\* C34: when the process has ended, by whatever path, the last command to
\* the motor (if any) was a stop and no LED was last commanded on.
C34_DeviceQuietAtExit ==
  Exited =>
    /\ ~ MotorLeftRunning
    /\ \A i \in LEDs : LastCommanded(i) # 1

\* The LEDs of lighting condition {l} of {nl}, for nl < 12 other than 6.
ExpectedLit(l, nl) ==
  LET S == (l * 24 + 12) \div nl
  IN  IF S % 2 = 0 THEN CentricAt(S \div 2) ELSE BridgingAt((S - 1) \div 2)

\* The commands that switch LED {i - 1} on and off, as tuples.
OnName == [i \in 1 .. 24 |-> switch_LED_command(i - 1, 1)]

OffName == [i \in 1 .. 24 |-> switch_LED_command(i - 1, 0)]

\* The index of the last command to all LEDs in the log, 0 if none.
LastAll ==
  LET js == { j \in 1 .. Len(log) :
                log[j].c = switch_all_LEDs_command(1)
                  \/ log[j].c = switch_all_LEDs_command(0) }
  IN  IF js = { } THEN 0 ELSE CHOOSE j \in js : \A k \in js : k <= j

\* The LEDs a device that executes the commands of the log has on.
DeviceLit ==
  LET a == LastAll
      since == a + 1 .. Len(log)
      allOn == a > 0 /\ log[a].c = switch_all_LEDs_command(1)
      lit(i) ==
        LET js == { j \in since : log[j].c = OnName[i + 1]
                                    \/ log[j].c = OffName[i + 1] }
        IN  IF js = { } THEN allOn
            ELSE LET last == CHOOSE j \in js : \A k \in js : k <= j
                 IN  log[last].c = OnName[i + 1]
  IN  { i \in LEDs : lit(i) }

\* C35: at the step that sends a capture request, the LEDs that are on at
\* a device that executed every command sent so far are exactly the LEDs
\* of the planner's vector for (L, nL), and LED_status agrees with the
\* device; so also for the first frame, before which the positioning LEDs
\* 0, 3, 6, 9 were on.
C35_DeviceShowsThePattern ==
  [][ CaptureFrame =>
        LET lit == DeviceLit
        IN  /\ LastAll > 0
            /\ lit = ExpectedLit(L, nL)
            /\ LED_status = [i \in LEDs |-> IF i \in lit THEN 1 ELSE 0] ]_vars

\* C35 witness: the first request of a session of one lighting condition
\* is outstanding; of the positioning LEDs, 0, 3 and 9 were switched off
\* one by one and 6 stayed on, as the pattern centred at LED 6 has it.
C35_Witness ==
  /\ pc = "await_reply"
  /\ nL = 1
  /\ Len(Captures) = 1
  /\ arduino_present
  /\ CountCmd("-A") = 1 /\ CountCmd("-D") = 1 /\ CountCmd("-J") = 1
  /\ CountCmd("-G") = 0
  /\ DeviceLit = {2, 5, 6, 7, 10, 18}

\* The positions of pc from the entry of capture_image_set to the end of
\* its loops.
SequencingSteps ==
  {"capture_image_set", "create_directories", "move", "light", "capture",
   "await_reply", "lights_off"}

\* C36: the motor is not in continuous motion during the sequence of
\* captures: the last motor command before capture_image_set is a stop
\* ('3'), no start command ('1', '2', '6', '7') is sent from then on, and
\* every capture request and every single step ('5') finds a stop as the
\* last motor command.
C36_NoStillWhileMoving ==
  /\ [][ BeginCaptureImageSet =>
           MotorIndices # { } /\ ~ MotorLeftRunning ]_vars
  /\ [][ (pc \in SequencingSteps) =>
           (\A i \in 1 .. Len(Added) : ~ (Added[i].c \in StartCommands)) ]_vars
  /\ [][ (\E i \in 1 .. Len(Added) :
            IsCapture(Added[i]) \/ Added[i] = DevEvent(move_microscope_command))
          => MotorIndices # { } /\ ~ MotorLeftRunning ]_vars

\* C36 witness: the operator started the motor and typed 'ok'; the first
\* capture request follows the stop.
C36_Witness ==
  /\ pc = "await_reply"
  /\ Len(Captures) = 1
  /\ \E j \in MotorIndices : log[j].c \in StartCommands
  /\ ~ MotorLeftRunning

\* ---------------------------------------------------------------------
\* The two processes that muff_capture.py starts and the two named pipes
\* between them: the opens, the capture requests and their replies, the
\* end of either process.

\* open_pipes with the two calls of open exchanged.
open_pipes_order_ReplyFirst == << "c2m_r", "m2c_w" >>

\* open_pipes: the ends of the pipes in the order of the calls of open.
open_pipes_order == << "m2c_w", "c2m_r" >>

\* The redirections "< ./muff_pipe_m2c > ./muff_pipe_c2m" of the command
\* that starts muff_camview.py; the shell opens them from left to right
\* before it runs the program.
camview_redirections == << "m2c_r", "c2m_w" >>

OtherEnd(e) ==
  CASE e = "m2c_r" -> "m2c_w"
    [] e = "m2c_w" -> "m2c_r"
    [] e = "c2m_r" -> "c2m_w"
    [] e = "c2m_w" -> "c2m_r"

\* Every end of {order} is open.
AllOpened(order, f) == \A i \in 1 .. Len(order) : f[order[i]] = "open"

\* The ends of {order} from the i-th on were not opened yet, the ones
\* before it are open: the process is about to make its i-th call of open.
AboutToOpen(order, f, i) ==
  /\ \A j \in 1 .. (i - 1) : f[order[j]] = "open"
  /\ \A j \in i .. Len(order) : f[order[j]] = "no"

\* The blocking open of end {e} of a FIFO: with the other end open, or a
\* process blocked in the open of the other end, both ends are open;
\* otherwise the caller blocks.
fifo_open(f, e) ==
  IF f[OtherEnd(e)] \in {"blocked", "open"}
    THEN [f EXCEPT ![e] = "open", ![OtherEnd(e)] = "open"]
    ELSE [f EXCEPT ![e] = "blocked"]

\* The process that holds the ends {order} closes them, or ends.
fifo_close(f, order) ==
  [e \in FifoEnds |->
     IF \E i \in 1 .. Len(order) : order[i] = e THEN "closed" ELSE f[e]]

PipeEvent(kind, x) == [k |-> kind, c |-> x, L |-> 0, V |-> 0, H |-> 0]

\* File names of the frames the main loop asks for: two the frame grabber
\* accepts and one it rejects.
PipeNames ==
  { << "a", ".", "j", "p", "g" >>,
    << "b", "/", "a", ".", "j", "p", "g" >>,
    << "-", "a", ".", "j", "p", "g" >> }

\* Lines some other writer puts into the request pipe: none of them is a
\* request.
OtherLines ==
  { << "#", "G", " ", "a", ".", "j", "p", "g", "\n" >>,
    << " ", "\t", "\r", "\n" >>,
    << "\n" >>,
    << "Q", "\n" >> }

InitPipes ==
  /\ pc = "open_pipes"
  /\ camview_pc = "shell"
  /\ fifo = NotOpened
  /\ argv_ok = TRUE
  /\ nL = 1
  /\ nV = 1
  /\ nH = 1
  /\ Z_step = 0
  /\ arduino_present = FALSE
  /\ camera_present = TRUE
  /\ LED_status = AllOff
  /\ Z_curr = << >>
  /\ L = 0
  /\ V = 0
  /\ H = 0
  /\ ok = TRUE
  /\ nread = 0
  /\ m2c_unflushed = FALSE
  /\ LED_vals = AllOff
  /\ ncalls = 0
  /\ log = << >>
  /\ sport_in = << >>
  /\ sport_out = << >>
  /\ m2cPipe = << >>
  /\ c2mPipe = << >>
  /\ dirs = {}
  /\ disk = {}

\* What the actions of the two processes leave alone.
PipesUnchanged ==
  /\ UNCHANGED << sport_in, sport_out, dirs >>
  /\ UNCHANGED << params, LED_vals, LED_status, Z_curr, L, V, H, nread >>

\* open_pipes calls open for its next pipe.
OpenPipes ==
  /\ pc = "open_pipes"
  /\ \E i \in 1 .. Len(open_pipes_order) :
       /\ AboutToOpen(open_pipes_order, fifo, i)
       /\ fifo' = fifo_open(fifo, open_pipes_order[i])
  /\ UNCHANGED << pc, camview_pc, m2cPipe, c2mPipe, disk, log, ok, ncalls,
                  m2c_unflushed >>
  /\ PipesUnchanged

\* open_pipes returns the two pipe objects.
OpenPipesReturns ==
  /\ pc = "open_pipes"
  /\ AllOpened(open_pipes_order, fifo)
  /\ pc' = "pipes_open"
  /\ UNCHANGED << fifo, camview_pc, m2cPipe, c2mPipe, disk, log, ok, ncalls,
                  m2c_unflushed >>
  /\ PipesUnchanged

\* The shell opens the next redirection of muff_camview.py.
ShellOpens ==
  /\ camview_pc = "shell"
  /\ \E i \in 1 .. Len(camview_redirections) :
       /\ AboutToOpen(camview_redirections, fifo, i)
       /\ fifo' = fifo_open(fifo, camview_redirections[i])
  /\ UNCHANGED << pc, camview_pc, m2cPipe, c2mPipe, disk, log, ok, ncalls,
                  m2c_unflushed >>
  /\ PipesUnchanged

\* With both redirections open the shell runs muff_camview.py, which
\* enters its event loop.
ShellRunsCamview ==
  /\ camview_pc = "shell"
  /\ AllOpened(camview_redirections, fifo)
  /\ camview_pc' = "camview_loop"
  /\ UNCHANGED << fifo, pc, m2cPipe, c2mPipe, disk, log, ok, ncalls,
                  m2c_unflushed >>
  /\ PipesUnchanged

\* capture_frame_camview up to the read of the reply: the command and the
\* end-of-line are written and flushed; with no reader the flush fails.
PipesSendRequest(fname) ==
  /\ pc = "pipes_open"
  /\ ncalls < MaxCalls
  /\ ncalls' = ncalls + 1
  /\ IF fifo["m2c_r"] = "closed"
       THEN /\ log' = log \o
                 << PipeEvent("wfail", fname),
                    ErrEvent("command to {muff_camview.py} could not be sent") >>
            /\ ok' = FALSE
            /\ m2c_unflushed' = TRUE
            /\ pc' = "terminate"
            /\ UNCHANGED m2cPipe
       ELSE /\ m2cPipe' = Append(m2cPipe, << "G", " " >> \o fname \o << "\n" >>)
            /\ log' = Append(log, PipeEvent("req", fname))
            /\ pc' = "await_reply"
            /\ UNCHANGED << ok, m2c_unflushed >>
  /\ UNCHANGED << camview_pc, fifo, c2mPipe, disk >>
  /\ PipesUnchanged

\* capture_frame_camview reads one line of the reply pipe; the read
\* returns the empty string when the pipe is empty and has no writer.
PipesReadReply ==
  /\ pc = "await_reply"
  /\ c2mPipe # << >> \/ fifo["c2m_w"] = "closed"
  /\ LET s == readline(c2mPipe)
         msg == capture_frame_camview_message(s)
     IN  /\ c2mPipe' = IF c2mPipe = << >> THEN << >> ELSE Tail(c2mPipe)
         /\ ok' = capture_reply_ok(s)
         /\ log' = log \o << RepEvent(s) >>
                      \o (IF msg = "" THEN << >> ELSE << ErrEvent(msg) >>)
         /\ pc' = IF capture_reply_ok(s) THEN "pipes_open" ELSE "terminate"
  /\ UNCHANGED << camview_pc, fifo, m2cPipe, disk, ncalls, m2c_unflushed >>
  /\ PipesUnchanged

\* The main loop ends, after the last frame or a failed capture through
\* terminate_process, or anywhere else between two captures: its ends of
\* the pipes are closed.
PipesMainEnds ==
  /\ pc \in {"pipes_open", "terminate"}
  /\ fifo' = fifo_close(fifo, open_pipes_order)
  /\ pc' = IF m2c_unflushed THEN "Crashed" ELSE IF ok THEN "Done" ELSE "Aborted"
  /\ UNCHANGED << camview_pc, m2cPipe, c2mPipe, disk, log, ok, ncalls,
                  m2c_unflushed >>
  /\ PipesUnchanged

\* The event loop of muff_camview.py got a line on its standard input.
\* The reply is written to the standard output; with no reader the write
\* ends the process.
PipesCamviewCommand ==
  /\ camview_pc = "camview_loop"
  /\ m2cPipe # << >>
  /\ \E grabbed \in BOOLEAN, res \in BOOLEAN :
       LET line == Head(m2cPipe)
           r == process_command(line, grabbed, res)
           broken == r.reply # << >> /\ fifo["c2m_r"] = "closed"
           exit == IF broken THEN "1" ELSE r.exit
       IN  /\ m2cPipe' = Tail(m2cPipe)
           /\ c2mPipe' = IF broken THEN c2mPipe ELSE c2mPipe \o r.reply
           /\ disk' = disk \cup r.file
           /\ log' = log \o r.err \o
                       (IF r.reply # << >> /\ ~ broken
                          THEN << PipeEvent("ok", fname_of(command_of(line))) >>
                          ELSE << >>)
           /\ camview_pc' = IF exit = "" THEN camview_pc
                            ELSE "camview_exit" \o exit
           /\ fifo' = IF exit = "" THEN fifo
                      ELSE fifo_close(fifo, camview_redirections)
  /\ UNCHANGED << pc, ok, ncalls, m2c_unflushed >>
  /\ PipesUnchanged

\* The standard input of muff_camview.py is at its end: the request pipe
\* is empty and has no writer.
PipesCamviewEOF ==
  /\ camview_pc = "camview_loop"
  /\ m2cPipe = << >>
  /\ fifo["m2c_w"] = "closed"
  /\ camview_pc' = "camview_exit0"
  /\ fifo' = fifo_close(fifo, camview_redirections)
  /\ log' = Append(log, ErrEvent("input stream closed. Bye."))
  /\ UNCHANGED << pc, m2cPipe, c2mPipe, disk, ok, ncalls, m2c_unflushed >>
  /\ PipesUnchanged

\* The refresh of the monitor window gets no frame from the camera:
\* muff_camview.py ends.
PipesCamviewGrabFails ==
  /\ camview_pc = "camview_loop"
  /\ camview_pc' = "camview_exit1"
  /\ fifo' = fifo_close(fifo, camview_redirections)
  /\ log' = Append(log, ErrEvent("image grab failed, quitting"))
  /\ UNCHANGED << pc, m2cPipe, c2mPipe, disk, ok, ncalls, m2c_unflushed >>
  /\ PipesUnchanged

\* Some other process writes a line that is not a request into the
\* request pipe.
OtherWriter(line) ==
  /\ camview_pc = "camview_loop"
  /\ Len(m2cPipe) < MaxLines
  /\ m2cPipe' = Append(m2cPipe, line)
  /\ UNCHANGED << pc, camview_pc, fifo, c2mPipe, disk, log, ok, ncalls,
                  m2c_unflushed >>
  /\ PipesUnchanged

NextPipes ==
  \/ OpenPipes
  \/ OpenPipesReturns
  \/ ShellOpens
  \/ ShellRunsCamview
  \/ \E fname \in PipeNames : PipesSendRequest(fname)
  \/ PipesReadReply
  \/ PipesMainEnds
  \/ PipesCamviewCommand
  \/ PipesCamviewEOF
  \/ PipesCamviewGrabFails
  \/ \E line \in OtherLines : OtherWriter(line)

SpecPipes == InitPipes /\ [][NextPipes]_vars

\* Both processes, once started, are scheduled: a call of open that can
\* be made is made.
SpecPipesFair == SpecPipes /\ WF_vars(OpenPipes) /\ WF_vars(ShellOpens)

\* ---------------------------------------------------------------------
\* Properties of the two processes and their pipes.

\* Both processes hold both pipes open.
BothHoldBothPipes == \A e \in FifoEnds : fifo[e] = "open"

\* C37: with the main loop opening the request pipe for writing and then
\* the reply pipe for reading, and the shell opening the request pipe for
\* reading and then the reply pipe for writing, the blocking opens do not
\* deadlock: both processes eventually hold both pipes open.
C37_OpensDoNotDeadlock == <> BothHoldBothPipes

\* C37 witness: both processes are past their opens, with all four ends
\* open.
C37_Witness ==
  /\ BothHoldBothPipes
  /\ pc = "pipes_open"
  /\ camview_pc = "camview_loop"

\* The indices of the entries of kind {kind} among the first {n} of the log.
KindIndices(kind, n) == { i \in 1 .. n : log[i].k = kind }

\* The largest element of the non-empty set of numbers {S}.
Latest(S) == CHOOSE i \in S : \A j \in S : j <= i

\* The reply lines that are not the end of the stream.
RepliesRead(n) == { i \in KindIndices("rep", n) : log[i].c # "" }

\* C38: requests and replies stay in lockstep.  A step of the frame
\* grabber writes at most one reply line, and only for a line whose
\* command begins with 'G'.  At every moment the replies written are at
\* most the requests sent, at most one request has no reply read yet and
\* at most one reply is in the pipe; and each reply the main loop reads
\* was written for the file of the request it sent last, after that
\* request, with no other reply left over.
C38_Lockstep ==
  /\ [][ PipesCamviewCommand =>
           /\ Len(c2mPipe') <= Len(c2mPipe) + 1
           /\ c2mPipe' # c2mPipe => command_of(Head(m2cPipe))[1] = "G" ]_vars
  /\ [] LET n == Len(log)
            reqs == KindIndices("req", n)
            oks == KindIndices("ok", n)
            reps == KindIndices("rep", n)
        IN  /\ Cardinality(oks) <= Cardinality(reqs)
            /\ Cardinality(reqs) - Cardinality(reps) \in {0, 1}
            /\ Len(c2mPipe) = Cardinality(oks) - Cardinality(RepliesRead(n))
            /\ Len(c2mPipe) <= 1
            /\ \A j \in RepliesRead(n) :
                 /\ KindIndices("req", j) # { }
                 /\ KindIndices("ok", j) # { }
                 /\ LET i == Latest(KindIndices("req", j))
                        m == Latest(KindIndices("ok", j))
                    IN  /\ i < m
                        /\ log[m].c = log[i].c
                        /\ Cardinality(KindIndices("ok", j))
                             = Cardinality(KindIndices("req", j))

\* C38 witness: two requests were answered and read, both images are on
\* the disk, the main loop has ended and the frame grabber has seen the
\* end of its input.
C38_Witness ==
  /\ pc = "Done"
  /\ Cardinality(RepliesRead(Len(log))) = 2
  /\ Cardinality(disk) = 2
  /\ camview_pc = "camview_exit0"

\* ---------------------------------------------------------------------
\* Termination of the main loop.

\* No Arduino and no frame grabber, and parameters within their ranges.
SimulatedSession ==
  /\ argv_ok
  /\ ~ arduino_present
  /\ ~ camera_present
  /\ ParameterContract

InitSim == Init /\ SimulatedSession

\* The steps of a session without a frame grabber: no reply is read.
NextSim ==
  \/ ParseArgs
  \/ TestLights
  \/ TestCondition
  \/ SetZStep
  \/ PlaceCameraLights
  \/ \E s \in OperatorLines : OperatorLine(s)
  \/ OperatorEOF
  \/ BeginCaptureImageSet
  \/ MakeSubdir
  \/ OtherProcessMakesDir
  \/ MoveMicroscope
  \/ SetLightCondition
  \/ CaptureFrame
  \/ SwitchAllLightsOff
  \/ TerminateProcess

\* The main loop process takes its next step whenever it has one; the
\* operator's input holds at most MaxOps lines before 'ok', 'abort', 'q'
\* or its end.
SpecSim == InitSim /\ [][NextSim]_vars /\ WF_vars(NextSim)

\* C39: a session with the device and the frame grabber both pretended
\* and parameters within their ranges ends: the process exits, so the
\* manual positioning is left and the loops of capture_image_set end; an
\* exit with status 0 comes after nL * nV * nH frames.
C39_SimulatedSessionEnds ==
  /\ <> Exited
  /\ [] (pc = "Done" => Len(Captures) = nL * nV * nH)

\* C39 witness: a simulated session of two lighting conditions and
\* MaxNH heights has ended after all its frames, the operator having
\* typed MaxOps lines before 'ok'.
C39_Witness ==
  /\ SimulatedSession
  /\ pc = "Done"
  /\ nL = 2
  /\ nH = MaxNH
  /\ nread = MaxOps + 1
  /\ Len(Captures) = 2 * MaxNH

\* ---------------------------------------------------------------------
\* The assertions of the light pattern planner.

\* Line 477 with 24 in place of 12: the azimuth of the end of the sector
\* of condition L, not of its middle.
define_LED_vals_S_SectorEnd(l, nl) == (l * 24 + 24) \div nl

\* The azimuth of condition {l} of {nl} as a multiple of 15 degrees.
define_LED_vals_S(l, nl) == (l * 24 + 12) \div nl

\* The assertion at the head of the two pattern functions.
pattern_assert(Lx) == Lx >= 0 /\ Lx < 12

\* The assertions define_LED_vals(l, nl) meets on its way all hold.
define_LED_vals_asserts(l, nl) ==
  /\ nl > 0 /\ nl <= num_LEDs
  /\ l >= 0 /\ l < nl
  /\ num_LEDs = 24
  /\ nl = 6 => pattern_assert(2 * l)
  /\ (nl < 12 /\ nl # 6) =>
       LET S == define_LED_vals_S(l, nl)
       IN  /\ S >= 0 /\ S < 23
           /\ IF S % 2 = 0 THEN pattern_assert(S \div 2)
                           ELSE pattern_assert((S - 1) \div 2)

\* The indices of {vals} that define_LED_vals(l, nl) assigns to, for nl
\* up to 12.
define_LED_vals_indices(l, nl) ==
  IF nl = 12 THEN {l, l + 12}
  ELSE IF nl = 6 THEN define_LED_centric_pattern(2 * l)
  ELSE LET S == define_LED_vals_S(l, nl)
       IN  IF S % 2 = 0 THEN define_LED_centric_pattern(S \div 2)
                        ELSE define_LED_bridging_pattern((S - 1) \div 2)

\* C40: for nL in 1..12 and L in 0..nL-1 no assertion of the planner
\* fails: S is in 0..22, the centre of a centric pattern and the first LED
\* of a bridging pattern are in 0..11, every index assigned is in 0..23,
\* and the call returns the vector of those indices.
C40_PlannerAssertionsHold ==
  nL <= 12 =>
    /\ define_LED_vals_asserts(L, nL)
    /\ define_LED_vals_indices(L, nL) \subseteq 0 .. 23
    /\ ~ define_LED_vals_raises(L, nL)
    /\ PlannerCalled =>
         /\ pc = "planned"
         /\ LitLEDs(LED_vals) = define_LED_vals_indices(L, nL)

\* C40 witness: the last of eleven conditions has the largest azimuth,
\* S = 22, and its centric pattern at LED 11 lights the last LED, 23.
C40_Witness ==
  /\ pc = "planned"
  /\ nL = 11
  /\ L = 10
  /\ define_LED_vals_S(L, nL) = 22
  /\ 23 \in LitLEDs(LED_vals)
  /\ 11 \in LitLEDs(LED_vals)

====
